---- MODULE Spec2Model ----
(***************************************************************************)
(* A model of the coordination core of ftp-browser-cli: the navigation and *)
(* selection state (UI store + FTP store + keyboard handler), the search   *)
(* hook and its walks, the download transfers and the control connection.  *)
(*                                                                         *)
(* Strings that the code computes with (remote paths, entry names) are     *)
(* sequences of one-character strings, so that concatenation, split and    *)
(* normalisation are computed as the code computes them.                   *)
(***************************************************************************)
EXTENDS Integers, Sequences, FiniteSets, TLC

VARIABLES
    \* ---- UI store (store/uiSlice.ts) ----
    mode, selectedIndex, currentPage, searchQuery, searchResults, isSearching,
    checkedItems, searchInputFocused,
    \* ---- FTP store (store/ftpSlice.ts), browsing side ----
    files, currentPath, loading, error,
    \* ---- navigation in flight (hooks/useNavigation.ts) ----
    navPc, navPath, navRest, navKind,
    \* ---- search hook seen from the UI store (hooks/useSearch.ts) ----
    timerPending, timerQuery, walkActive, walkLeft,
    \* ---- observation of the selection (history) ----
    lastOp, checkedSeen, lastQueued, lastPreview,
    \* ---- search hook refs and the walks of its services (hooks/useSearch.ts,
    \*      services/searchService.ts) ----
    svcRef, flushRef, activeTimers, batchRef, walks, lastStarted,
    \* ---- downloads of the UI store, the transfers of hooks/useDownload.ts and
    \*      the FTP clients they run on (services/ftpClient.ts) ----
    downloads, xfers, connState, clientTask, listBlocked, listedDuring, cancelledIds,
    \* ---- DownloadManager (services/downloadManager.ts) ----
    dmDownloads, dmRunning, dmPc,
    \* ---- FTPService: the control connection and the calls waiting on it ----
    isConnected, linkUp, client, callers,
    \* ---- the session of the FTP store (config, connected, the module's
    \*      ftpService reference), the mounted application and its connect()
    \*      in flight (hooks/useFtp.ts, components/App.tsx) ----
    connected, config, ftpService, mounted, bootPc, thrown, attempts,
    \* ---- one run of downloadWithSeparateClient seen for its resume offset:
    \*      the sizes on the server and on disk, and the locals of the run ----
    rsRemote, rsLocal, rsPc, rsTotal, rsExisting, rsOffset, rsDownloaded,
    \* ---- the directory transfer of addDirectoryDownload in flight
    \*      (downloadDirectoryWithSeparateClient) ----
    dirJob,
    \* ---- one call of SearchService.search with its own callbacks ----
    srch,
    \* ---- a path handed to normalizePath, and what comes back ----
    np,
    \* ---- the cursor of the UI store over lists of any length and any page size ----
    cs,
    \* ---- one call of handleEnter on an entry, and the paths it has tried ----
    en,
    \* ---- the downloads list under arbitrary calls (store/uiSlice.ts) ----
    reg,
    \* ---- the debounce timers of useSearch (hooks/useSearch.ts) ----
    db

navVars == <<mode, selectedIndex, currentPage, searchQuery, searchResults, isSearching,
             checkedItems, searchInputFocused, files, currentPath, loading, error,
             navPc, navPath, navRest, navKind,
             timerPending, timerQuery, walkActive, walkLeft,
             lastOp, checkedSeen, lastQueued, lastPreview>>

hookRefVars == <<svcRef, flushRef, activeTimers, batchRef, walks, lastStarted>>

xferVars == <<downloads, xfers, connState, clientTask, listBlocked, listedDuring, cancelledIds>>

dmVars == <<dmDownloads, dmRunning, dmPc>>

connVars == <<isConnected, linkUp, client, callers>>

sessVars == <<connected, config, ftpService, mounted, bootPc, thrown, attempts>>

resumeVars == <<rsRemote, rsLocal, rsPc, rsTotal, rsExisting, rsOffset, rsDownloaded>>

vars == <<navVars, hookRefVars, xferVars, dmVars, connVars, sessVars, resumeVars, dirJob, srch, np,
          cs, en, reg, db>>

-----------------------------------------------------------------------------
(* Bounds of the model *)

PageSize == 2          \* itemsPerPage of the modelled terminal
MaxBatch == 2          \* matches that one flush of the buffer appends
MaxWalks == 2          \* search walks started in one run of the search hook
MaxXfers == 2          \* file transfers queued in one run
MaxProgress == 1       \* progress events one transfer reports before it ends
MaxManaged == 2        \* downloads handed to the DownloadManager
MaxCallers == 2        \* callers of FTPService.list at the same time
MaxClients == 3        \* Client objects the service creates by reconnecting
MaxPathLen == 4        \* characters of a path handed to normalizePath
MaxItems == 3          \* entries of a list the cursor store displays
MaxPerPage == 3        \* itemsPerPage of the cursor store

-----------------------------------------------------------------------------
(* Strings as character sequences *)

Root == <<"/">>
NoStr == <<>>          \* an absent optional string (undefined)

StartsWithSlash(s) == s # <<>> /\ Head(s) = "/"

RECURSIVE StripTrailingSlashes(_)
StripTrailingSlashes(s) ==
    IF s # <<>> /\ s[Len(s)] = "/"
    THEN StripTrailingSlashes(SubSeq(s, 1, Len(s) - 1))
    ELSE s

RECURSIVE SplitAcc(_, _, _)
SplitAcc(s, cur, acc) ==
    IF s = <<>> THEN Append(acc, cur)
    ELSE IF Head(s) = "/" THEN SplitAcc(Tail(s), <<>>, Append(acc, cur))
    ELSE SplitAcc(Tail(s), Append(cur, Head(s)), acc)

\* s.split('/')
Split(s) == SplitAcc(s, <<>>, <<>>)

\* s.split('/').filter(Boolean)
Segments(s) == SelectSeq(Split(s), LAMBDA x : x # <<>>)

RECURSIVE Join(_)
Join(segs) ==
    IF segs = <<>> THEN <<>>
    ELSE IF Len(segs) = 1 THEN segs[1]
    ELSE segs[1] \o <<"/">> \o Join(Tail(segs))

\* a loop that keeps every segment as it is
keepSegments(segs, resolved) == resolved \o segs

\* the loop over the segments: '.' is dropped, '..' drops the segment before
\* it if there is one
RECURSIVE ResolveSegments(_, _)
ResolveSegments(segs, resolved) ==
    IF segs = <<>> THEN resolved
    ELSE IF Head(segs) = <<".">> THEN ResolveSegments(Tail(segs), resolved)
    ELSE IF Head(segs) = <<".", ".">>
         THEN ResolveSegments(Tail(segs),
                  IF resolved # <<>> THEN SubSeq(resolved, 1, Len(resolved) - 1)
                  ELSE resolved)
    ELSE ResolveSegments(Tail(segs), Append(resolved, Head(segs)))

normalizePath(path) ==
    IF path = <<>> THEN Root
    ELSE LET stripped == StripTrailingSlashes(path)
             lead     == IF StartsWithSlash(stripped) THEN stripped ELSE <<"/">> \o stripped
         IN <<"/">> \o Join(ResolveSegments(Segments(lead), <<>>))

\* joinPath(a, b) for two segments
joinPath(a, b) ==
    LET segs   == SelectSeq(<<a, b>>, LAMBDA x : x # <<>>)
        joined == Join(segs)
    IN IF segs = <<>> THEN Root
       ELSE normalizePath(IF StartsWithSlash(joined) THEN joined ELSE <<"/">> \o joined)

\* what an FTP client is busy with: basic-ftp runs one task at a time
NoTask      == [kind |-> "none", id |-> 0]
ListTask    == [kind |-> "list", id |-> 0]
XferTask(t) == [kind |-> "xfer", id |-> t]

-----------------------------------------------------------------------------
(* The remote server: a small directory tree *)

Dir(n)       == [type |-> "DIR",  name |-> n, target |-> NoStr, path |-> NoStr]
File(n)      == [type |-> "FILE", name |-> n, target |-> NoStr, path |-> NoStr]
Link(n, t)   == [type |-> "LINK", name |-> n, target |-> t,     path |-> NoStr]
NoItem       == [type |-> "NONE", name |-> NoStr, target |-> NoStr, path |-> NoStr]

\* no preview is shown
NoPreview == [item |-> NoItem, remote |-> NoStr]

\* the UI store as created, seen for its cursor: the mode, the lengths of
\* files and searchResults, itemsPerPage, the cursor, and the last operation
\* with its argument and the cursor before it
CsStart == [mode |-> "browse", nFiles |-> 0, nResults |-> 0, ips |-> 1,
            page |-> 0, idx |-> 0, op |-> "none", g |-> 0, before |-> <<0, 0>>]

\* handleEnter has not been called
\* the downloads list of a new UI store, and no call made on it yet
RegStart == [list |-> <<>>, op |-> "none", id |-> 0]

\* the debounce of a new useSearch hook: no timer made, timerRef null
DbStart == [timers |-> {}, ref |-> 0, made |-> 0, started |-> <<>>, dead |-> {}]

NoEnter == [pc |-> "idle", item |-> NoItem, cur |-> NoStr, rest |-> <<>>, tried |-> <<>>,
            error |-> "none"]

\* normalizePath has not been called
NoPath == [pc |-> "idle", path |-> <<>>, out |-> <<>>, again |-> <<>>]

\* SearchService.search has not been called
IdleSearch == [pc |-> "idle", cancelled |-> FALSE, pat |-> <<>>, limit |-> 0, start |-> <<>>,
               cur |-> <<>>, depth |-> 0, stack |-> <<>>, listed |-> <<>>, failed |-> {},
               matched |-> <<>>, results |-> <<>>]

\* an error object: its class, its message, and the call that threw it
Thrown(kind, msg, from) == [kind |-> kind, msg |-> msg, from |-> from]
NoErr == Thrown("none", "", "")

\* no directory transfer has been queued
NoEntry == [type |-> "NONE", path |-> <<>>, size |-> 0]
IdleJob == [pc |-> "idle", dir |-> <<>>, work |-> <<>>, file |-> NoEntry, sent |-> 0,
            written |-> {}, failures |-> 0, err |-> NoErr]

PathA == <<"/", "a">>

RemoteDirs == {Root, PathA}

\* what the server lists for a directory, already filtered, mapped and sorted
\* (directories first, then by name) as FTPService.list returns it
RemoteListing(p) ==
    CASE p = Root   -> << Dir(<<"a">>), File(<<"f">>), Link(<<"l">>, <<"/", "x", "/", "a">>) >>
      [] p = PathA  -> << File(<<"a", "f">>), Link(<<"m">>, <<"/", "a", "/">>) >>
      [] OTHER      -> << >>

\* the server resolves the path it is given before looking it up
RemoteExists(p) == normalizePath(p) \in RemoteDirs

WithPath(item, p) == [item EXCEPT !.path = p]

\* name.toLowerCase().includes(pat) on lower-case names
RECURSIVE Includes(_, _)
Includes(name, pat) ==
    IF Len(pat) > Len(name) THEN FALSE
    ELSE IF SubSeq(name, 1, Len(pat)) = pat THEN TRUE
    ELSE Includes(Tail(name), pat)

\* the queries the user types (already trimmed, lower case)
Queries == { <<>>, <<"a">>, <<"f">> }

\* the queries typed while the selection is observed
NavQueries == { <<>>, <<"a">> }

\* defaults.maxSearchDepth
MaxSearchDepth == 5

\* SearchService.search(startPath, pattern, maxDepth): the matches in the order
\* the walk reports them when no listing fails and nothing cancels it
RECURSIVE recurseMatches(_, _, _, _)
RECURSIVE entriesMatches(_, _, _, _, _)
entriesMatches(entries, cur, depth, pat, limit) ==
    IF entries = <<>> THEN <<>>
    ELSE LET f    == Head(entries)
             full == IF cur = Root THEN <<"/">> \o f.name ELSE cur \o <<"/">> \o f.name
         IN (IF Includes(f.name, pat) THEN << WithPath(f, cur) >> ELSE <<>>)
            \o (IF f.type = "DIR" THEN recurseMatches(full, depth + 1, pat, limit) ELSE <<>>)
            \o entriesMatches(Tail(entries), cur, depth, pat, limit)
recurseMatches(cur, depth, pat, limit) ==
    IF depth >= limit \/ ~RemoteExists(cur) THEN <<>>
    ELSE entriesMatches(RemoteListing(normalizePath(cur)), cur, depth, pat, limit)

-----------------------------------------------------------------------------
(* UI store and keyboard handler: derived values and pure store operations *)

displayItems == IF mode = "search" THEN searchResults ELSE files
globalIndex  == currentPage * PageSize + selectedIndex

\* list[g] ?? null, for a 0-based index g
ItemAt(list, g) == IF g >= 0 /\ g < Len(list) THEN list[g + 1] ELSE NoItem

selectedItem == ItemAt(displayItems, globalIndex)

\* Math.ceil(total / itemsPerPage)
TotalPages(total) == (total + PageSize - 1) \div PageSize

Max(a, b) == IF a >= b THEN a ELSE b
Min(a, b) == IF a <= b THEN a ELSE b

toggleCheck(checked, index) ==
    IF index \in checked THEN checked \ {index} ELSE checked \cup {index}

checkAll(checked, totalItems) ==
    IF Cardinality(checked) = totalItems /\ totalItems > 0 THEN {} ELSE 0 .. (totalItems - 1)

\* a moveCursor without its range check
moveCursorUnchecked(newGlobalIndex, length, itemsPerPage, cursor) ==
    <<Max(0, newGlobalIndex \div itemsPerPage), Max(0, newGlobalIndex % itemsPerPage)>>

\* the cursor <<currentPage, selectedIndex>> after moveCursor(newGlobalIndex)
\* over a list of the given length: setCurrentPage(page), setSelectedIndex(idx)
moveCursorOn(newGlobalIndex, length, itemsPerPage, cursor) ==
    IF newGlobalIndex < 0 \/ newGlobalIndex >= length
    THEN cursor
    ELSE <<Max(0, newGlobalIndex \div itemsPerPage), Max(0, newGlobalIndex % itemsPerPage)>>

\* Math.ceil(totalItems / itemsPerPage)
totalPagesOn(totalItems, itemsPerPage) == (totalItems + itemsPerPage - 1) \div itemsPerPage

\* the cursor after nextPage(totalItems)
nextPageOn(totalItems, itemsPerPage, cursor) ==
    LET next == Min(cursor[1] + 1, Max(0, totalPagesOn(totalItems, itemsPerPage) - 1))
    IN IF next # cursor[1] THEN <<next, 0>> ELSE cursor

\* the cursor after prevPage()
prevPageOn(cursor) ==
    LET prev == Max(0, cursor[1] - 1)
    IN IF prev # cursor[1] THEN <<prev, 0>> ELSE cursor

\* the cursor after goToLastPage(totalItems)
goToLastPageOn(totalItems, itemsPerPage) ==
    <<Max(0, totalPagesOn(totalItems, itemsPerPage) - 1), 0>>

\* the same operations on the store of the keyboard model, whose page size is PageSize
moveCursor(newGlobalIndex) ==
    moveCursorOn(newGlobalIndex, Len(displayItems), PageSize, <<currentPage, selectedIndex>>)

nextPage(totalItems) == nextPageOn(totalItems, PageSize, <<currentPage, selectedIndex>>)

prevPage == prevPageOn(<<currentPage, selectedIndex>>)

goToLastPage(totalItems) == goToLastPageOn(totalItems, PageSize)

\* the cursor after setMode(m): every mode but browse resets it
setModeCursor(m) == IF m # "browse" THEN <<0, 0>> ELSE <<currentPage, selectedIndex>>

\* navigate(path): only a leading slash is added
navigateArg(path) == IF StartsWithSlash(path) THEN path ELSE <<"/">> \o path

\* goBack(): the parent that is navigated to
goBackParent(cur) ==
    LET parts == Segments(cur)
        rest  == SubSeq(parts, 1, Len(parts) - 1)
    IN IF rest # <<>> THEN <<"/">> \o Join(rest) ELSE Root

\* '/' + parts.slice(i).join('/') for i = 1 .. parts.length - 1
\* a retry that goes straight to the last segment of the target
strippedToLast(parts, i) ==
    IF i >= Len(parts) THEN <<>> ELSE << <<"/">> \o parts[Len(parts)] >>

RECURSIVE StrippedFrom(_, _)
StrippedFrom(parts, i) ==
    IF i >= Len(parts) THEN <<>>
    ELSE << <<"/">> \o Join(SubSeq(parts, i + 1, Len(parts))) >> \o StrippedFrom(parts, i + 1)

\* handleEnter(item): the targets it tries, in order
enterCandidates(item) ==
    LET basePath == IF item.path # NoStr THEN item.path ELSE currentPath
        target   == IF item.target # NoStr THEN item.target ELSE item.name
    IN IF item.type = "DIR"
       THEN << IF basePath = Root THEN <<"/">> \o item.name ELSE joinPath(basePath, item.name) >>
       ELSE << IF StartsWithSlash(target) THEN target ELSE joinPath(basePath, target) >>
            \o (IF StartsWithSlash(target) THEN StrippedFrom(Segments(target), 1) ELSE <<>>)

enterKind(item) == IF item.type = "DIR" THEN "navigateTo" ELSE "tryNavigateTo"

\* the item the user saw at each checked index when checking it
seenAfter(checked2) ==
    [i \in checked2 |-> IF i \in checkedItems THEN checkedSeen[i] ELSE ItemAt(displayItems, i)]

NoneSeen == [i \in {} |-> NoItem]

\* what the download key queues: one entry per checked index that addresses a
\* FILE or a DIR of the displayed list, or the item under the cursor
downloadQueued ==
    IF checkedItems # {}
    THEN { [idx  |-> i,
            item |-> ItemAt(displayItems, i),
            base |-> IF ItemAt(displayItems, i).path # NoStr
                     THEN ItemAt(displayItems, i).path ELSE currentPath,
            seen |-> checkedSeen[i]] :
           i \in { j \in checkedItems : ItemAt(displayItems, j).type \in {"FILE", "DIR"} } }
    ELSE IF selectedItem.type \in {"FILE", "DIR"}
    THEN { [idx  |-> globalIndex,
            item |-> selectedItem,
            base |-> IF selectedItem.path # NoStr THEN selectedItem.path ELSE currentPath,
            seen |-> selectedItem] }
    ELSE {}

-----------------------------------------------------------------------------
(* Navigation and selection: the actions of the keyboard handler, of the   *)
(* navigation hook and of the FTP store's listDirectory.  One listing of   *)
(* the browsing store is in flight at a time, and one search walk.         *)

\* what the actions of this section leave alone
otherVars == <<hookRefVars, xferVars, dmVars, connVars, sessVars, resumeVars, dirJob, srch, np,
               cs, en, reg, db>>
nonNavVars == <<otherVars, lastPreview>>

cursorV == <<selectedIndex, currentPage>>
queryV  == <<searchQuery, searchResults, isSearching>>
hookV   == <<timerPending, timerQuery, walkActive, walkLeft>>
checkV  == <<checkedItems, checkedSeen>>
ftpV    == <<files, currentPath, loading, error>>
navV    == <<navPc, navPath, navRest, navKind>>

Cursor(pair) == currentPage' = pair[1] /\ selectedIndex' = pair[2]

\* handleBrowse is reached: browse mode, or search mode with the input unfocused
InBrowseKeys == ~loading /\ (mode = "browse" \/ (mode = "search" /\ ~searchInputFocused))

\* listDirectory throws 'Not connected' before it touches the store unless
\* the module holds a service and the store says connected
CanList == ftpService /\ connected

\* listDirectory(path) up to its await: loading is set, the error cleared
BeginListing(cands, kind) ==
    /\ CanList
    /\ navPc' = "listing"
    /\ navPath' = Head(cands)
    /\ navRest' = Tail(cands)
    /\ navKind' = kind
    /\ loading' = TRUE
    /\ error' = "none"
    /\ UNCHANGED <<files, currentPath>>

\* handleEnter(item) up to the first await: resetSelection, navigate, listDirectory
BeginEnter(item) ==
    /\ Cursor(<<0, 0>>)
    /\ BeginListing([i \in DOMAIN enterCandidates(item) |-> navigateArg(enterCandidates(item)[i])],
                    enterKind(item))

\* setSearchQuery('')
ClearQuery == searchQuery' = <<>> /\ searchResults' = <<>> /\ isSearching' = FALSE

Check(checked2) == checkedItems' = checked2 /\ checkedSeen' = seenAfter(checked2)

KeyHelp ==
    /\ InBrowseKeys
    /\ mode' = "help"
    /\ Cursor(setModeCursor("help"))
    /\ lastOp' = "other"
    /\ UNCHANGED <<queryV, hookV, checkV, ftpV, navV, searchInputFocused>>
    /\ lastQueued' = {}
    /\ UNCHANGED nonNavVars

KeyDismiss ==
    /\ mode \in {"help", "preview"}
    /\ mode' = "browse"
    /\ lastOp' = "other"
    /\ UNCHANGED <<cursorV, queryV, hookV, checkV, ftpV, navV, searchInputFocused>>
    /\ lastQueued' = {}
    /\ lastPreview' = NoPreview
    /\ UNCHANGED otherVars

\* Up/k, Down/j; in the focused search input an arrow also unfocuses it
KeyUpDown(d) ==
    /\ mode \in {"browse", "search"}
    /\ ~(mode = "search" /\ ~searchInputFocused /\ loading)
    /\ ~(mode = "browse" /\ loading)
    /\ searchInputFocused' = IF mode = "search" THEN FALSE ELSE searchInputFocused
    /\ IF loading THEN UNCHANGED cursorV ELSE Cursor(moveCursor(globalIndex + d))
    /\ lastOp' = "other"
    /\ UNCHANGED <<mode, queryV, hookV, checkV, ftpV, navV>>
    /\ lastQueued' = {}
    /\ UNCHANGED nonNavVars

KeyPageUp ==
    /\ mode \in {"browse", "search"}
    /\ ~loading
    /\ searchInputFocused' = IF mode = "search" THEN FALSE ELSE searchInputFocused
    /\ Cursor(prevPage)
    /\ lastOp' = "other"
    /\ UNCHANGED <<mode, queryV, hookV, checkV, ftpV, navV>>
    /\ lastQueued' = {}
    /\ UNCHANGED nonNavVars

KeyPageDown ==
    /\ mode \in {"browse", "search"}
    /\ ~loading
    /\ searchInputFocused' = IF mode = "search" THEN FALSE ELSE searchInputFocused
    /\ Cursor(nextPage(Len(displayItems)))
    /\ lastOp' = "other"
    /\ UNCHANGED <<mode, queryV, hookV, checkV, ftpV, navV>>
    /\ lastQueued' = {}
    /\ UNCHANGED nonNavVars

KeyFirstPage ==
    /\ InBrowseKeys
    /\ Cursor(<<0, 0>>)
    /\ lastOp' = "other"
    /\ UNCHANGED <<mode, queryV, hookV, checkV, ftpV, navV, searchInputFocused>>
    /\ lastQueued' = {}
    /\ UNCHANGED nonNavVars

KeyLastPage ==
    /\ InBrowseKeys
    /\ Cursor(goToLastPage(Len(displayItems)))
    /\ lastOp' = "other"
    /\ UNCHANGED <<mode, queryV, hookV, checkV, ftpV, navV, searchInputFocused>>
    /\ lastQueued' = {}
    /\ UNCHANGED nonNavVars

\* 1-9: move the cursor to item N of the current page
KeyDigit(num) ==
    /\ InBrowseKeys
    /\ currentPage * PageSize + num < Len(displayItems)
    /\ Cursor(moveCursor(currentPage * PageSize + num))
    /\ lastOp' = "other"
    /\ UNCHANGED <<mode, queryV, hookV, checkV, ftpV, navV, searchInputFocused>>
    /\ lastQueued' = {}
    /\ UNCHANGED nonNavVars

\* handleGoBack: resetSelection, then goBack() lists the parent unless at the root
GoBack ==
    /\ Cursor(<<0, 0>>)
    /\ IF currentPath = Root
       THEN UNCHANGED <<ftpV, navV>>
       ELSE BeginListing(<< navigateArg(goBackParent(currentPath)) >>, "goBack")

KeyGoBack ==
    /\ InBrowseKeys
    /\ navPc = "idle"
    /\ GoBack
    /\ lastOp' = "other"
    /\ UNCHANGED <<mode, queryV, hookV, checkV, searchInputFocused>>
    /\ lastQueued' = {}
    /\ UNCHANGED nonNavVars

\* Esc in browse mode: clear the selection, else go back, else nothing
KeyBrowseEsc ==
    /\ mode = "browse" /\ ~loading /\ navPc = "idle"
    /\ IF checkedItems # {}
       THEN Check({}) /\ UNCHANGED <<cursorV, ftpV, navV>>
       ELSE IF currentPath # Root
       THEN GoBack /\ UNCHANGED checkV
       ELSE UNCHANGED <<cursorV, ftpV, navV, checkV>>
    /\ lastOp' = "other"
    /\ UNCHANGED <<mode, queryV, hookV, searchInputFocused>>
    /\ lastQueued' = {}
    /\ UNCHANGED nonNavVars

\* Right arrow: enter a directory or a link
KeyRight ==
    /\ InBrowseKeys
    /\ navPc = "idle"
    /\ selectedItem.type \in {"DIR", "LINK"}
    /\ BeginEnter(selectedItem)
    /\ lastOp' = "other"
    /\ UNCHANGED <<mode, queryV, hookV, checkV, searchInputFocused>>
    /\ lastQueued' = {}
    /\ UNCHANGED nonNavVars

\* Enter in browse mode: DIR/LINK -> enter, FILE -> toggle its check
KeyEnterBrowse ==
    /\ mode = "browse" /\ ~loading /\ navPc = "idle"
    /\ selectedItem # NoItem
    /\ IF selectedItem.type \in {"DIR", "LINK"}
       THEN BeginEnter(selectedItem) /\ UNCHANGED checkV
       ELSE Check(toggleCheck(checkedItems, globalIndex)) /\ UNCHANGED <<cursorV, ftpV, navV>>
    /\ lastOp' = "other"
    /\ UNCHANGED <<mode, queryV, hookV, searchInputFocused>>
    /\ lastQueued' = {}
    /\ UNCHANGED nonNavVars

\* Enter in search mode: DIR/LINK -> leave search and enter, FILE -> toggle
KeyEnterSearch ==
    /\ mode = "search" /\ navPc = "idle"
    /\ selectedItem # NoItem
    /\ IF selectedItem.type \in {"DIR", "LINK"}
       THEN /\ mode' = "browse"
            /\ ClearQuery
            /\ BeginEnter(selectedItem)
            /\ UNCHANGED checkV
       ELSE /\ Check(toggleCheck(checkedItems, globalIndex))
            /\ UNCHANGED <<mode, queryV, cursorV, ftpV, navV>>
    /\ lastOp' = "other"
    /\ UNCHANGED <<hookV, searchInputFocused>>
    /\ lastQueued' = {}
    /\ UNCHANGED nonNavVars

KeySpace ==
    /\ InBrowseKeys
    /\ selectedItem # NoItem
    /\ Check(toggleCheck(checkedItems, globalIndex))
    /\ lastOp' = "other"
    /\ UNCHANGED <<mode, cursorV, queryV, hookV, ftpV, navV, searchInputFocused>>
    /\ lastQueued' = {}
    /\ UNCHANGED nonNavVars

KeyCheckAll ==
    /\ InBrowseKeys
    /\ Check(checkAll(checkedItems, Len(displayItems)))
    /\ lastOp' = "other"
    /\ UNCHANGED <<mode, cursorV, queryV, hookV, ftpV, navV, searchInputFocused>>
    /\ lastQueued' = {}
    /\ UNCHANGED nonNavVars

\* d: queue the checked entries and clear the selection, or queue the cursor's entry
KeyDownload ==
    /\ InBrowseKeys
    /\ checkedItems # {} \/ selectedItem # NoItem
    /\ lastQueued' = downloadQueued
    /\ UNCHANGED nonNavVars
    /\ IF checkedItems # {} THEN Check({}) ELSE UNCHANGED checkV
    /\ lastOp' = "download"
    /\ UNCHANGED <<mode, cursorV, queryV, hookV, ftpV, navV, searchInputFocused>>

\* the remote path that handlePreview asks the service for
previewRemote(item) ==
    IF currentPath = Root THEN <<"/">> \o item.name ELSE currentPath \o <<"/">> \o item.name

\* p on a file: the preview is fetched and shown
KeyPreview ==
    /\ InBrowseKeys
    /\ selectedItem.type = "FILE"
    /\ mode' = "preview"
    /\ Cursor(setModeCursor("preview"))
    /\ lastOp' = "other"
    /\ UNCHANGED <<queryV, hookV, checkV, ftpV, navV, searchInputFocused>>
    /\ lastQueued' = {}
    /\ lastPreview' = [item |-> selectedItem, remote |-> previewRemote(selectedItem)]
    /\ UNCHANGED otherVars

\* /: start a search
KeySearch ==
    /\ mode = "browse" /\ ~loading
    /\ mode' = "search"
    /\ Cursor(setModeCursor("search"))
    /\ ClearQuery
    /\ lastOp' = "other"
    /\ UNCHANGED <<hookV, checkV, ftpV, navV, searchInputFocused>>
    /\ lastQueued' = {}
    /\ UNCHANGED nonNavVars

\* r: refresh, listDirectory(currentPath) without resetting the cursor
\* (the rejection of a disconnected session is dropped by .catch(() => {}))
KeyRefresh ==
    /\ mode = "browse" /\ ~loading /\ navPc = "idle"
    /\ IF CanList
       THEN BeginListing(<<currentPath>>, "refresh")
       ELSE UNCHANGED <<ftpV, navV>>
    /\ lastOp' = "refresh"
    /\ UNCHANGED <<mode, cursorV, queryV, hookV, checkV, searchInputFocused>>
    /\ lastQueued' = {}
    /\ UNCHANGED nonNavVars

KeyTab ==
    /\ mode = "search"
    /\ searchInputFocused' = ~searchInputFocused
    /\ lastOp' = "other"
    /\ UNCHANGED <<mode, cursorV, queryV, hookV, checkV, ftpV, navV>>
    /\ lastQueued' = {}
    /\ UNCHANGED nonNavVars

\* Esc in search mode: the keyboard handler clears the selection or leaves the
\* mode, and the search box's own handler calls onSearchCancel
KeySearchEsc ==
    /\ mode = "search"
    /\ Check({})
    /\ mode' = "browse"
    /\ ClearQuery
    /\ timerPending' = FALSE
    /\ walkActive' = FALSE
    /\ lastOp' = "other"
    /\ walkLeft' = <<>>
    /\ lastQueued' = {}
    /\ UNCHANGED nonNavVars
    /\ UNCHANGED <<cursorV, ftpV, navV, searchInputFocused>>
    /\ timerQuery' = <<>>

\* typing in the focused search input: setSearchQuery(q), runSearchDebounced(q)
TypeQuery(q) ==
    /\ mode = "search" /\ searchInputFocused
    /\ searchQuery' = q
    /\ IF q = <<>>
       THEN /\ searchResults' = <<>>
            /\ isSearching' = FALSE
            /\ Cursor(<<0, 0>>)
            /\ timerPending' = FALSE
            /\ timerQuery' = <<>>
            /\ lastOp' = "results"
       ELSE /\ isSearching' = TRUE
            /\ timerPending' = TRUE
            /\ timerQuery' = q
            /\ lastOp' = "other"
            /\ UNCHANGED <<searchResults, cursorV>>
    /\ lastQueued' = {}
    /\ UNCHANGED nonNavVars
    /\ UNCHANGED <<mode, walkActive, walkLeft, checkV, ftpV, navV, searchInputFocused>>

\* the debounce timer fires: runSearch(query) up to its await
SearchTimerFires ==
    /\ timerPending
    /\ ~walkActive
    /\ timerPending' = FALSE
    /\ walkActive' = TRUE
    /\ walkLeft' = recurseMatches(currentPath, 0, timerQuery, MaxSearchDepth)
    /\ searchResults' = <<>>
    /\ Cursor(<<0, 0>>)
    /\ isSearching' = TRUE
    /\ lastOp' = "results"
    /\ UNCHANGED <<mode, searchQuery, checkV, ftpV, navV, searchInputFocused>>
    /\ timerQuery' = <<>>
    /\ lastQueued' = {}
    /\ UNCHANGED nonNavVars

\* the flush interval fires with n buffered matches: appendSearchResults(batch)
SearchFlush(n) ==
    /\ walkActive
    /\ n <= Len(walkLeft)
    /\ searchResults' = searchResults \o SubSeq(walkLeft, 1, n)
    /\ walkLeft' = SubSeq(walkLeft, n + 1, Len(walkLeft))
    /\ lastOp' = "other"
    /\ lastQueued' = {}
    /\ UNCHANGED nonNavVars
    /\ UNCHANGED <<mode, cursorV, searchQuery, isSearching, timerPending, timerQuery, walkActive,
                   checkV, ftpV, navV, searchInputFocused>>

\* the walk returns: the flush timer is cleared, the rest of the buffer is
\* appended, isSearching reset
SearchWalkEnds ==
    /\ walkActive
    /\ walkActive' = FALSE
    /\ searchResults' = searchResults \o walkLeft
    /\ walkLeft' = <<>>
    /\ isSearching' = FALSE
    /\ lastOp' = "other"
    /\ lastQueued' = {}
    /\ UNCHANGED nonNavVars
    /\ UNCHANGED <<mode, cursorV, searchQuery, timerPending, timerQuery,
                   checkV, ftpV, navV, searchInputFocused>>

\* ftpService.list resolves: listDirectory stores the listing and the path
ListSucceeds ==
    /\ navPc = "listing"
    /\ RemoteExists(navPath)
    /\ files' = RemoteListing(normalizePath(navPath))
    /\ currentPath' = navPath
    /\ loading' = FALSE
    /\ error' = "none"
    /\ navPc' = "idle"
    /\ navPath' = Root
    /\ navRest' = <<>>
    /\ navKind' = "navigateTo"
    /\ lastOp' = "listed"
    /\ UNCHANGED <<mode, cursorV, queryV, hookV, checkV, searchInputFocused>>
    /\ lastQueued' = {}
    /\ UNCHANGED nonNavVars

\* the message left in the store when the listing of an operation has failed
\* for good: listDirectory's own, or handleEnter's for a link
listErrorNone(kind) == "none"
listError(kind) == IF kind = "tryNavigateTo" THEN "linkTarget" ELSE "list"

\* ftpService.list rejects (not found, or a transport failure): listDirectory
\* records the error and rethrows; tryNavigateTo goes on to the next candidate
ListFails ==
    /\ navPc = "listing"
    /\ IF navKind = "tryNavigateTo" /\ navRest # <<>>
       THEN /\ Cursor(<<0, 0>>)
            /\ BeginListing(navRest, "tryNavigateTo")
       ELSE /\ navPc' = "idle"
            /\ loading' = FALSE
            /\ error' = listError(navKind)
            /\ navPath' = Root
            /\ navRest' = <<>>
            /\ navKind' = "navigateTo"
            /\ UNCHANGED <<cursorV, files, currentPath>>
    /\ lastOp' = "other"
    /\ UNCHANGED <<mode, queryV, hookV, checkV, searchInputFocused>>
    /\ lastQueued' = {}
    /\ UNCHANGED nonNavVars

\* the application once connect() has listed the root directory
Init ==
    /\ mode = "browse"
    /\ selectedIndex = 0
    /\ currentPage = 0
    /\ searchQuery = <<>>
    /\ searchResults = <<>>
    /\ isSearching = FALSE
    /\ checkedItems = {}
    /\ searchInputFocused = TRUE
    /\ files = RemoteListing(Root)
    /\ currentPath = Root
    /\ loading = FALSE
    /\ error = "none"
    /\ navPc = "idle"
    /\ navPath = Root
    /\ navRest = <<>>
    /\ navKind = "navigateTo"
    /\ timerPending = FALSE
    /\ timerQuery = <<>>
    /\ walkActive = FALSE
    /\ walkLeft = <<>>
    /\ lastOp = "other"
    /\ checkedSeen = NoneSeen
    /\ lastQueued = {}
    /\ lastPreview = NoPreview
    \* the search hook before any search: no service, no timers, an empty buffer
    /\ svcRef = 0
    /\ flushRef = 0
    /\ activeTimers = {}
    /\ batchRef = <<>>
    /\ walks = <<>>
    /\ lastStarted = <<>>
    \* no download yet; only the control connection (client 0) is open
    /\ downloads = <<>>
    /\ xfers = <<>>
    /\ connState = [c \in 0 .. MaxXfers |-> IF c = 0 THEN "open" ELSE "unused"]
    /\ clientTask = [c \in 0 .. MaxXfers |-> NoTask]
    /\ listBlocked = FALSE
    /\ listedDuring = FALSE
    /\ cancelledIds = {}
    /\ dmDownloads = <<>>
    /\ dmRunning = {}
    /\ dmPc = <<>>
    /\ isConnected = TRUE
    /\ linkUp = TRUE
    /\ client = 0
    /\ callers = [c \in 1 .. MaxCallers |-> [pc |-> "idle", on |-> 0, re |-> FALSE]]
    \* the session is connected: connect() has run to its end, without a throw
    /\ connected = TRUE
    /\ config = TRUE
    /\ ftpService = TRUE
    /\ mounted = TRUE
    /\ bootPc = "done"
    /\ thrown = FALSE
    /\ attempts = 1
    \* no run is watched for its resume offset
    /\ rsRemote = 0
    /\ rsLocal = 0
    /\ rsPc = "idle"
    /\ rsTotal = 0
    /\ rsExisting = 0
    /\ rsOffset = 0
    /\ rsDownloaded = 0
    /\ dirJob = IdleJob
    /\ srch = IdleSearch
    /\ np = NoPath
    /\ db = DbStart
    /\ reg = RegStart
    /\ en = NoEnter
    /\ cs = CsStart

NavNext ==
    \/ KeyHelp
    \/ KeyDismiss
    \/ \E d \in {-1, 1} : KeyUpDown(d)
    \/ KeyPageUp
    \/ KeyPageDown
    \/ KeyFirstPage
    \/ KeyLastPage
    \/ \E num \in 0 .. (PageSize - 1) : KeyDigit(num)
    \/ KeyGoBack
    \/ KeyBrowseEsc
    \/ KeyRight
    \/ KeyEnterBrowse
    \/ KeyEnterSearch
    \/ KeySpace
    \/ KeyCheckAll
    \/ KeyDownload
    \/ KeyPreview
    \/ KeySearch
    \/ KeyRefresh
    \/ KeyTab
    \/ KeySearchEsc
    \/ \E q \in NavQueries : TypeQuery(q)
    \/ SearchTimerFires
    \/ \E n \in 1 .. MaxBatch : SearchFlush(n)
    \/ SearchWalkEnds
    \/ ListSucceeds
    \/ ListFails

SpecNav == Init /\ [][NavNext]_vars

-----------------------------------------------------------------------------
(* The search hook (useSearch) and the walks of its SearchService instances. *)
(* A walk is suspended only while a list() call is in flight; what it does   *)
(* between two listings runs without interruption.                           *)

\* recurse(): the synchronous part of a walk, from the frames on its stack up
\* to the next list() call or to the end of the walk.  A frame is a directory
\* whose listing has arrived, with the entries its loop has not visited yet.
\* a loop that runs through its entries whatever the cancel flag says
loopEndsUnflagged(rest, cancelled) == rest = <<>>

\* the loop over a listing ends: no entry is left, or the cancel flag is seen
\* at the head of an iteration
loopEnds(rest, cancelled) == rest = <<>> \/ cancelled

RECURSIVE walkRun(_, _, _, _)
walkRun(stack, cancelled, pat, out) ==
    IF stack = <<>>
    THEN [pc |-> "done", stack |-> <<>>, out |-> out, cur |-> NoStr, depth |-> 0]
    ELSE LET top   == stack[Len(stack)]
             below == SubSeq(stack, 1, Len(stack) - 1)
         IN IF loopEnds(top.rest, cancelled)
            THEN walkRun(below, cancelled, pat, out)
            ELSE LET f      == Head(top.rest)
                     full   == IF top.cur = Root THEN <<"/">> \o f.name
                               ELSE top.cur \o <<"/">> \o f.name
                     out2   == IF Includes(f.name, pat)
                               THEN Append(out, WithPath(f, top.cur)) ELSE out
                     stack2 == Append(below, [top EXCEPT !.rest = Tail(top.rest)])
                 IN IF f.type = "DIR" /\ top.depth + 1 < MaxSearchDepth
                    THEN [pc |-> "listing", stack |-> stack2, out |-> out2,
                          cur |-> full, depth |-> top.depth + 1]
                    ELSE walkRun(stack2, cancelled, pat, out2)

\* SearchService.cancel()
cancel(walk) == [walk EXCEPT !.cancelled = TRUE]

\* cancelSearch(): the service that svcRef holds is cancelled
cancelRef(ws, ref) == IF ref # 0 THEN [ws EXCEPT ![ref] = cancel(ws[ref])] ELSE ws

\* clearInterval(flushRef.current) when the ref is set
clearFlush(timers, ref) == IF ref # 0 THEN timers \ {ref} ELSE timers

nonHookVars == <<checkedItems, searchInputFocused, files, currentPath, loading, error,
                 navPc, navPath, navRest, navKind, walkActive, walkLeft,
                 checkedSeen, lastQueued, lastPreview, xferVars, dmVars, connVars, sessVars,
                 resumeVars, dirJob, srch, np, cs, en, reg, db>>

\* / in browse mode
HookKeySearch ==
    /\ mode = "browse"
    /\ mode' = "search"
    /\ Cursor(<<0, 0>>)
    /\ ClearQuery
    /\ lastOp' = "other"
    /\ UNCHANGED <<timerPending, timerQuery, hookRefVars, nonHookVars>>

\* onSearchQuery(q): setSearchQuery(q), runSearchDebounced(q)
HookType(q) ==
    /\ mode = "search"
    /\ searchQuery' = q
    /\ IF q = <<>>
       THEN /\ searchResults' = <<>>
            /\ isSearching' = FALSE
            /\ timerPending' = FALSE
            /\ timerQuery' = <<>>
       ELSE /\ isSearching' = TRUE
            /\ timerPending' = TRUE
            /\ timerQuery' = q
            /\ UNCHANGED searchResults
    /\ Cursor(<<0, 0>>)
    /\ lastOp' = "other"
    /\ UNCHANGED <<mode, hookRefVars, nonHookVars>>

\* the debounce timer fires: runSearch(query) up to the first list() of its walk
HookTimerFires ==
    /\ timerPending
    /\ Len(walks) < MaxWalks
    /\ LET id == Len(walks) + 1
       IN /\ timerPending' = FALSE
          /\ svcRef' = id
          /\ searchResults' = <<>>
          /\ Cursor(<<0, 0>>)
          /\ batchRef' = <<>>
          /\ isSearching' = TRUE
          /\ activeTimers' = activeTimers \cup {id}
          /\ flushRef' = id
          /\ walks' = Append(walks, [pc |-> "listing", cancelled |-> FALSE, pat |-> timerQuery,
                                     cur |-> currentPath, depth |-> 0, stack |-> <<>>,
                                     listed |-> <<currentPath>>, matched |-> <<>>])
          /\ lastStarted' = timerQuery
    /\ lastOp' = "other"
    /\ UNCHANGED <<mode, searchQuery, nonHookVars>>
    /\ timerQuery' = <<>>

\* an interval timer fires: flushBatch()
HookFlushTick(t) ==
    /\ t \in activeTimers
    /\ batchRef # <<>>
    /\ searchResults' = searchResults \o batchRef
    /\ batchRef' = <<>>
    /\ lastOp' = "other"
    /\ UNCHANGED <<mode, cursorV, searchQuery, isSearching, timerPending, timerQuery,
                   svcRef, flushRef, activeTimers, walks, lastStarted, nonHookVars>>

\* a list() of walk w resolves or rejects; the walk runs on to its next list()
\* or returns, and then runSearch's finally block runs
HookListReturns(w, ok) ==
    /\ w \in DOMAIN walks
    /\ walks[w].pc = "listing"
    /\ ok => RemoteExists(walks[w].cur)
    /\ LET wk == walks[w]
           st == IF ok
                 THEN Append(wk.stack, [cur |-> wk.cur, depth |-> wk.depth,
                                        rest |-> RemoteListing(normalizePath(wk.cur))])
                 ELSE wk.stack
           r  == walkRun(st, wk.cancelled, wk.pat, <<>>)
       IN /\ walks' = [walks EXCEPT ![w] =
                          [wk EXCEPT !.pc = r.pc, !.cur = r.cur, !.depth = r.depth,
                                     !.stack = r.stack,
                                     !.listed = IF r.pc = "listing" THEN Append(@, r.cur) ELSE @,
                                     !.matched = @ \o r.out]]
          /\ IF r.pc = "done"
             THEN /\ activeTimers' = clearFlush(activeTimers, flushRef)
                  /\ flushRef' = 0
                  /\ searchResults' = searchResults \o batchRef \o r.out
                  /\ batchRef' = <<>>
                  /\ isSearching' = FALSE
                  /\ svcRef' = 0
             ELSE /\ batchRef' = batchRef \o r.out
                  /\ UNCHANGED <<activeTimers, flushRef, searchResults, isSearching, svcRef>>
    /\ lastOp' = "other"
    /\ UNCHANGED <<mode, cursorV, searchQuery, timerPending, timerQuery, lastStarted, nonHookVars>>

\* Esc in search mode: onSearchCancel (cancelSearch, setMode('browse'),
\* setSearchQuery('')) together with the keyboard handler's own branch
HookEsc ==
    /\ mode = "search"
    /\ timerPending' = FALSE
    /\ activeTimers' = clearFlush(activeTimers, flushRef)
    /\ flushRef' = 0
    /\ walks' = cancelRef(walks, svcRef)
    /\ svcRef' = 0
    /\ batchRef' = <<>>
    /\ mode' = "browse"
    /\ ClearQuery
    /\ lastOp' = "searchEsc"
    /\ UNCHANGED <<cursorV, lastStarted, nonHookVars>>
    /\ timerQuery' = <<>>

HookNext ==
    \/ HookKeySearch
    \/ \E q \in Queries : HookType(q)
    \/ HookTimerFires
    \/ \E t \in 1 .. MaxWalks : HookFlushTick(t)
    \/ \E w \in 1 .. MaxWalks, ok \in BOOLEAN : HookListReturns(w, ok)
    \/ HookEsc

SpecSearch == Init /\ [][HookNext]_vars

-----------------------------------------------------------------------------
(* File transfers: addFileDownload, downloadWithSeparateClient and the       *)
(* downloads list of the UI store.  A transfer is suspended at each await.   *)

\* findIndex((x) => x.id === id): the first position with that id, 0 for none
IndexOf(list, id) ==
    IF \E i \in DOMAIN list : list[i].id = id
    THEN CHOOSE i \in DOMAIN list : list[i].id = id /\ \A j \in 1 .. (i - 1) : list[j].id # id
    ELSE 0

\* { ...rec, ...u }
merge(rec, u) == [f \in DOMAIN rec |-> IF f \in DOMAIN u THEN u[f] ELSE rec[f]]

\* uiSlice.addDownload
addDownload(list, d) ==
    IF IndexOf(list, d.id) > 0 THEN [list EXCEPT ![IndexOf(list, d.id)] = d]
    ELSE Append(list, d)

\* an update that adds the record when the id is not listed
updateDownloadUpsert(list, id, u) ==
    IF IndexOf(list, id) = 0
    THEN Append(list, merge([id |-> id, status |-> "downloading", downloaded |-> 0], u))
    ELSE [list EXCEPT ![IndexOf(list, id)] = merge(@, u)]

\* an update that is written into every record of the list
updateDownloadEvery(list, id, u) == [i \in DOMAIN list |-> merge(list[i], u)]

\* uiSlice.updateDownload
updateDownload(list, id, u) ==
    IF IndexOf(list, id) = 0 THEN list
    ELSE [list EXCEPT ![IndexOf(list, id)] = merge(@, u)]

\* uiSlice.removeDownload
removeDownload(list, id) == SelectSeq(list, LAMBDA d : d.id # id)

\* the id that the transfer functions put in their progress records: the file name
FilenameId == 0

\* the progress record of downloadWithSeparateClient / FTPService.download
progressOf(status, n) == [id |-> FilenameId, status |-> status, downloaded |-> n]

\* { ...p, id }
withId(p, id) == [p EXCEPT !.id = id]

\* a transfer that runs on the client of the service
controlClient(t) == 0

\* createDownloadClient: a new Client for transfer t
createDownloadClient(t) == t

\* a client starts a task if it runs none, and ends the task it runs
startTask(ct, c, task) == IF ct[c] = NoTask THEN [ct EXCEPT ![c] = task] ELSE ct
endTask(ct, c, task)   == IF ct[c] = task THEN [ct EXCEPT ![c] = NoTask] ELSE ct

nonXferVars == <<navVars, hookRefVars, dmVars, connVars, sessVars, resumeVars, dirJob, srch, np,
                 cs, en, reg, db>>

\* the transfer's callbacks reach updateDownload; late records one that comes
\* after the download was cancelled
Step(t, pc, sent, called) ==
    xfers' = [xfers EXCEPT ![t] = [@ EXCEPT !.pc = pc, !.sent = sent,
                                          !.late = @ \/ (called /\ t \in cancelledIds)]]

\* .catch of addFileDownload
ReportFailed(t) == downloads' = updateDownload(downloads, t, [status |-> "failed"])

\* addFileDownload up to the await inside createDownloadClient
XAdd ==
    /\ Len(xfers) < MaxXfers
    /\ LET t == Len(xfers) + 1
       IN /\ downloads' = addDownload(downloads, [id |-> t, status |-> "downloading",
                                                  downloaded |-> 0])
          /\ xfers' = Append(xfers, [pc |-> "connect", conn |-> createDownloadClient(t),
                                     sent |-> 0, late |-> FALSE])
    /\ UNCHANGED <<connState, clientTask, listBlocked, listedDuring, cancelledIds, nonXferVars>>

\* dlClient.access() resolves or rejects
XConnected(t, ok) ==
    /\ t \in DOMAIN xfers
    /\ xfers[t].pc = "connect"
    /\ IF ok
       THEN /\ connState' = [connState EXCEPT ![xfers[t].conn] = "open"]
            /\ Step(t, "mkdir", 0, FALSE)
            /\ UNCHANGED downloads
       ELSE /\ Step(t, "failed", 0, TRUE)
            /\ ReportFailed(t)
            /\ UNCHANGED connState
    /\ UNCHANGED <<clientTask, listBlocked, listedDuring, cancelledIds, nonXferVars>>

\* ensureDirectoryExists(dirname(localPath)) resolves or throws; then
\* dlClient.size is called
XMkdir(t, ok) ==
    /\ t \in DOMAIN xfers
    /\ xfers[t].pc = "mkdir"
    /\ IF ok
       THEN /\ Step(t, "size", 0, FALSE)
            /\ clientTask' = startTask(clientTask, xfers[t].conn, XferTask(t))
            /\ UNCHANGED downloads
       ELSE /\ Step(t, "failed", 0, TRUE)
            /\ ReportFailed(t)
            /\ UNCHANGED clientTask
    /\ UNCHANGED <<connState, listBlocked, listedDuring, cancelledIds, nonXferVars>>

\* dlClient.size resolves or rejects (the rejection is swallowed); then
\* getFileSize(localPath) is called
XSize(t) ==
    /\ t \in DOMAIN xfers
    /\ xfers[t].pc = "size"
    /\ Step(t, "stat", 0, FALSE)
    /\ clientTask' = endTask(clientTask, xfers[t].conn, XferTask(t))
    /\ UNCHANGED <<downloads, connState, listBlocked, listedDuring, cancelledIds, nonXferVars>>

\* getFileSize returns a size (0 for a missing file) or throws PermissionError;
\* then trackProgress is set and downloadTo is called
XStat(t, ok) ==
    /\ t \in DOMAIN xfers
    /\ xfers[t].pc = "stat"
    /\ IF ok
       THEN /\ Step(t, "transfer", 0, FALSE)
            /\ clientTask' = startTask(clientTask, xfers[t].conn, XferTask(t))
            /\ UNCHANGED downloads
       ELSE /\ Step(t, "failed", 0, TRUE)
            /\ ReportFailed(t)
            /\ UNCHANGED clientTask
    /\ UNCHANGED <<connState, listBlocked, listedDuring, cancelledIds, nonXferVars>>

\* the trackProgress handler emits a progress record
XProgress(t) ==
    /\ t \in DOMAIN xfers
    /\ xfers[t].pc = "transfer"
    /\ xfers[t].sent < MaxProgress
    /\ Step(t, "transfer", xfers[t].sent + 1, TRUE)
    /\ downloads' = updateDownload(downloads, t,
                                   withId(progressOf("downloading", xfers[t].sent + 1), t))
    /\ UNCHANGED <<connState, clientTask, listBlocked, listedDuring, cancelledIds, nonXferVars>>

\* downloadTo resolves or rejects: the final progress record, the finally
\* block that closes the client, then .then or .catch of addFileDownload
XTransferEnds(t, ok) ==
    /\ t \in DOMAIN xfers
    /\ xfers[t].pc = "transfer"
    /\ clientTask' = endTask(clientTask, xfers[t].conn, XferTask(t))
    /\ connState' = [connState EXCEPT ![xfers[t].conn] = "closed"]
    /\ IF ok
       THEN /\ Step(t, "done", xfers[t].sent, TRUE)
            /\ downloads' = updateDownload(
                               updateDownload(downloads, t,
                                              withId(progressOf("completed", xfers[t].sent), t)),
                               t, [status |-> "completed"])
       ELSE /\ Step(t, "failed", xfers[t].sent, TRUE)
            /\ ReportFailed(t)
    /\ UNCHANGED <<listBlocked, listedDuring, cancelledIds, nonXferVars>>

\* useDownload.cancelDownload(id), offered for every listed download
XCancel(id) ==
    /\ IndexOf(downloads, id) > 0
    /\ downloads' = removeDownload(downloads, id)
    /\ cancelledIds' = cancelledIds \cup {id}
    /\ UNCHANGED <<xfers, connState, clientTask, listBlocked, listedDuring, nonXferVars>>

\* the number of transfers whose downloadTo is in flight
Transferring == Cardinality({t \in DOMAIN xfers : xfers[t].pc = "transfer"})

\* a list() on the control connection while it is up: client.list starts if
\* the client runs no other task
XList ==
    /\ clientTask[0] # ListTask
    /\ IF clientTask[0] = NoTask
       THEN /\ clientTask' = [clientTask EXCEPT ![0] = ListTask]
            /\ UNCHANGED listBlocked
       ELSE /\ listBlocked' = TRUE
            /\ UNCHANGED clientTask
    /\ UNCHANGED <<downloads, xfers, connState, listedDuring, cancelledIds, nonXferVars>>

\* client.list resolves
XListReturns ==
    /\ clientTask[0] = ListTask
    /\ clientTask' = [clientTask EXCEPT ![0] = NoTask]
    /\ listedDuring' = (listedDuring \/ Transferring >= 2)
    /\ UNCHANGED <<downloads, xfers, connState, listBlocked, cancelledIds, nonXferVars>>

XferNext ==
    \/ XAdd
    \/ \E t \in 1 .. MaxXfers, ok \in BOOLEAN : XConnected(t, ok)
    \/ \E t \in 1 .. MaxXfers, ok \in BOOLEAN : XMkdir(t, ok)
    \/ \E t \in 1 .. MaxXfers : XSize(t)
    \/ \E t \in 1 .. MaxXfers, ok \in BOOLEAN : XStat(t, ok)
    \/ \E t \in 1 .. MaxXfers : XProgress(t)
    \/ \E t \in 1 .. MaxXfers, ok \in BOOLEAN : XTransferEnds(t, ok)
    \/ \E t \in 1 .. MaxXfers : XCancel(t)
    \/ XList
    \/ XListReturns

SpecXfer == Init /\ [][XferNext]_vars

-----------------------------------------------------------------------------
(* DownloadManager and the hook that queues through it                       *)
(* (hooks/useDownload.ts).  run() reads the progress callback of the id      *)
(* before the hook registers one, so no progress reaches updateDownload.     *)
(* The record that the hook hands to addDownload is the object the manager   *)
(* keeps in its map, until a progress event replaces the map entry: shared   *)
(* says that the two are still the same object.                              *)

nonDmVars == <<navVars, hookRefVars, xfers, connState, clientTask, listBlocked, listedDuring,
               cancelledIds, connVars, sessVars, resumeVars, dirJob, srch, np, cs, en, reg, db>>

\* an assignment to the status of the manager's record; the UI list sees it
\* while it holds the same object
setStatus(id, status) ==
    /\ dmDownloads' = [dmDownloads EXCEPT ![id].status = status]
    /\ downloads' = IF dmDownloads[id].shared /\ IndexOf(downloads, id) > 0
                    THEN [downloads EXCEPT ![IndexOf(downloads, id)].status = status]
                    ELSE downloads

\* onProg: this.downloads.set(id, { ...p, id })
onProg(id, p) == [status |-> p.status, downloaded |-> p.downloaded, shared |-> FALSE]

\* addFileDownload: downloadManager.addDownload (which calls run up to the
\* first await of ftp.download), addDownload(progress), onProgress(id, cb)
DMAdd ==
    /\ Len(dmDownloads) < MaxManaged
    /\ LET id == Len(dmDownloads) + 1
       IN /\ dmDownloads' = Append(dmDownloads, [status |-> "downloading", downloaded |-> 0,
                                                 shared |-> TRUE])
          /\ dmRunning' = dmRunning \cup {id}
          /\ dmPc' = Append(dmPc, "start")
          /\ downloads' = addDownload(downloads, [id |-> id, status |-> "downloading",
                                                  downloaded |-> 0])
    /\ UNCHANGED nonDmVars

\* the steps of ftp.download before downloadTo (ensureDirectoryExists, size,
\* getFileSize) succeed, or one of them throws into the catch block of run
DMBegins(id, ok) ==
    /\ id \in DOMAIN dmPc
    /\ dmPc[id] = "start"
    /\ IF ok
       THEN /\ dmPc' = [dmPc EXCEPT ![id] = "transfer"]
            /\ UNCHANGED <<dmDownloads, downloads, dmRunning>>
       ELSE /\ dmPc' = [dmPc EXCEPT ![id] = "done"]
            /\ setStatus(id, "failed")
            /\ dmRunning' = dmRunning \ {id}
    /\ UNCHANGED nonDmVars

\* the trackProgress handler of ftp.download calls onProg
DMProgress(id) ==
    /\ id \in DOMAIN dmPc
    /\ dmPc[id] = "transfer"
    /\ dmDownloads[id].downloaded < MaxProgress
    /\ dmDownloads' = [dmDownloads EXCEPT ![id] =
                          onProg(id, progressOf("downloading", dmDownloads[id].downloaded + 1))]
    /\ UNCHANGED <<dmPc, dmRunning, downloads, nonDmVars>>

\* downloadTo resolves (onProg(done), then status = 'completed') or rejects
\* (status = 'failed'); finally the id leaves the running set
DMEnds(id, ok) ==
    /\ id \in DOMAIN dmPc
    /\ dmPc[id] = "transfer"
    /\ dmPc' = [dmPc EXCEPT ![id] = "done"]
    /\ IF ok
       THEN /\ dmDownloads' = [dmDownloads EXCEPT ![id] =
                                  onProg(id, progressOf("completed", dmDownloads[id].downloaded))]
            /\ UNCHANGED downloads
       ELSE setStatus(id, "failed")
    /\ dmRunning' = dmRunning \ {id}
    /\ UNCHANGED nonDmVars

\* cancelDownload(id) of the hook, offered for every listed download:
\* downloadManager.cancelDownload(id), then removeDownload(id)
DMCancel(id) ==
    /\ id \in DOMAIN dmDownloads
    /\ IndexOf(downloads, id) > 0
    /\ IF dmDownloads[id].status \in {"downloading", "paused"}
       THEN /\ dmDownloads' = [dmDownloads EXCEPT ![id].status = "cancelled"]
            /\ dmRunning' = dmRunning \ {id}
       ELSE UNCHANGED <<dmDownloads, dmRunning>>
    /\ downloads' = removeDownload(downloads, id)
    /\ UNCHANGED <<dmPc, nonDmVars>>

ManagerNext ==
    \/ DMAdd
    \/ \E id \in 1 .. MaxManaged, ok \in BOOLEAN : DMBegins(id, ok)
    \/ \E id \in 1 .. MaxManaged : DMProgress(id)
    \/ \E id \in 1 .. MaxManaged, ok \in BOOLEAN : DMEnds(id, ok)
    \/ \E id \in 1 .. MaxManaged : DMCancel(id)

SpecManager == Init /\ [][ManagerNext]_vars

-----------------------------------------------------------------------------
(* FTPService: list() callers and ensureConnected on the control connection. *)
(* The callers are the operations that await service.list at the same time:  *)
(* listDirectory of the store, a search walk, a directory download.          *)
(* client numbers the Client objects of the service; linkUp says that the    *)
(* current one has a live connection to the server.  A caller's record says  *)
(* where it waits (pc), on which client (on), and whether this call has had  *)
(* to reconnect (re).                                                        *)

nonConnVars == <<navVars, hookRefVars, xferVars, dmVars, sessVars, resumeVars, dirJob, srch, np,
                 cs, en, reg, db>>

\* callers whose client.access() is pending
Connecting == {c \in DOMAIN callers : callers[c].pc = "access"}

\* ensureConnected after the probe: close the client, make a new one, call access
Reconnect(c) ==
    /\ client < MaxClients
    /\ client' = client + 1
    /\ linkUp' = FALSE
    /\ callers' = [callers EXCEPT ![c] = [pc |-> "access", on |-> client + 1, re |-> TRUE]]
    /\ UNCHANGED isConnected

\* list(path) is called: ensureConnected probes with pwd when isConnected
CList(c) ==
    /\ callers[c].pc = "idle"
    /\ IF isConnected
       THEN /\ callers' = [callers EXCEPT ![c] = [pc |-> "probe", on |-> client, re |-> FALSE]]
            /\ UNCHANGED <<isConnected, linkUp, client>>
       ELSE Reconnect(c)
    /\ UNCHANGED nonConnVars

\* pwd resolves (the client probed is still the current one and its link is
\* up) and client.list is called, or pwd rejects and the caller reconnects
CProbeReturns(c, ok) ==
    /\ callers[c].pc = "probe"
    /\ ok => (linkUp /\ callers[c].on = client)
    /\ IF ok
       THEN /\ callers' = [callers EXCEPT ![c].pc = "listing"]
            /\ UNCHANGED <<isConnected, linkUp, client>>
       ELSE Reconnect(c)
    /\ UNCHANGED nonConnVars

\* access resolves (only on a client that no later reconnect has closed):
\* isConnected = true and client.list is called on this.client; or it
\* rejects and list() throws
CAccessReturns(c, ok) ==
    /\ callers[c].pc = "access"
    /\ ok => callers[c].on = client
    /\ IF ok
       THEN /\ isConnected' = TRUE
            /\ linkUp' = TRUE
            /\ callers' = [callers EXCEPT ![c].pc = "listing"]
       ELSE /\ callers' = [callers EXCEPT ![c] = [pc |-> "idle", on |-> 0, re |-> FALSE]]
            /\ UNCHANGED <<isConnected, linkUp>>
    /\ UNCHANGED <<client, nonConnVars>>

\* client.list resolves or rejects
CListReturns(c, ok) ==
    /\ callers[c].pc = "listing"
    /\ ok => (linkUp /\ callers[c].on = client)
    /\ callers' = [callers EXCEPT ![c] = [pc |-> "idle", on |-> 0, re |-> FALSE]]
    /\ UNCHANGED <<isConnected, linkUp, client, nonConnVars>>

\* the server or the network drops the control connection
CLinkDrops ==
    /\ linkUp
    /\ linkUp' = FALSE
    /\ UNCHANGED <<isConnected, client, callers, nonConnVars>>

ConnNext ==
    \/ \E c \in 1 .. MaxCallers : CList(c)
    \/ \E c \in 1 .. MaxCallers, ok \in BOOLEAN : CProbeReturns(c, ok)
    \/ \E c \in 1 .. MaxCallers, ok \in BOOLEAN : CAccessReturns(c, ok)
    \/ \E c \in 1 .. MaxCallers, ok \in BOOLEAN : CListReturns(c, ok)
    \/ CLinkDrops

SpecConn == Init /\ [][ConnNext]_vars

-----------------------------------------------------------------------------
(* The session: the application mounts (the mode effects of App, the       *)
(* connect-on-mount effect of useFtp), connect() and disconnect() of the   *)
(* FTP store run on the FTPService, and the keyboard refreshes.  connect() *)
(* is suspended at its two awaits (svc.connect, svc.list of the root);     *)
(* disconnect() awaits only a call that closes the client and resolves at  *)
(* once, so no network event comes between its two halves.                 *)

AppModes == {"browse", "search", "preview", "download", "help", "connecting"}

\* what the actions of the session leave alone
sessFrame == <<queryV, hookV, checkV, navV, searchInputFocused, lastQueued, lastPreview,
               hookRefVars, xferVars, dmVars, linkUp, client, callers, resumeVars, dirJob, srch, np,
               cs, en, reg, db>>

\* the stores as created, before the application is mounted
BootInit ==
    /\ mode = "browse"
    /\ selectedIndex = 0
    /\ currentPage = 0
    /\ searchQuery = <<>>
    /\ searchResults = <<>>
    /\ isSearching = FALSE
    /\ checkedItems = {}
    /\ searchInputFocused = TRUE
    /\ files = <<>>
    /\ currentPath = Root
    /\ loading = FALSE
    /\ error = "none"
    /\ navPc = "idle"
    /\ navPath = Root
    /\ navRest = <<>>
    /\ navKind = "navigateTo"
    /\ timerPending = FALSE
    /\ timerQuery = <<>>
    /\ walkActive = FALSE
    /\ walkLeft = <<>>
    /\ lastOp = "other"
    /\ checkedSeen = NoneSeen
    /\ lastQueued = {}
    /\ lastPreview = NoPreview
    /\ svcRef = 0
    /\ flushRef = 0
    /\ activeTimers = {}
    /\ batchRef = <<>>
    /\ walks = <<>>
    /\ lastStarted = <<>>
    /\ downloads = <<>>
    /\ xfers = <<>>
    /\ connState = [c \in 0 .. MaxXfers |-> "unused"]
    /\ clientTask = [c \in 0 .. MaxXfers |-> NoTask]
    /\ listBlocked = FALSE
    /\ listedDuring = FALSE
    /\ cancelledIds = {}
    /\ dmDownloads = <<>>
    /\ dmRunning = {}
    /\ dmPc = <<>>
    /\ isConnected = FALSE
    /\ linkUp = TRUE
    /\ client = 0
    /\ callers = [c \in 1 .. MaxCallers |-> [pc |-> "idle", on |-> 0, re |-> FALSE]]
    /\ connected = FALSE
    /\ config = FALSE
    /\ ftpService = FALSE
    /\ mounted = FALSE
    /\ bootPc = "idle"
    /\ thrown = FALSE
    /\ attempts = 0
    \* no run is watched for its resume offset
    /\ rsRemote = 0
    /\ rsLocal = 0
    /\ rsPc = "idle"
    /\ rsTotal = 0
    /\ rsExisting = 0
    /\ rsOffset = 0
    /\ rsDownloaded = 0
    /\ dirJob = IdleJob
    /\ srch = IdleSearch
    /\ np = NoPath
    /\ db = DbStart
    /\ reg = RegStart
    /\ en = NoEnter
    /\ cs = CsStart

\* the condition of App's second effect, apart from mode === 'connecting'
connectionSettledOnSuccess(l, c, e) == ~l /\ c
connectionSettled(l, c, e) == ~l /\ (c \/ e # "none")

\* the catch block of connect(): what it leaves in the store and the module
connectCatchKeepsService(msg) ==
    [connected |-> FALSE, config |-> FALSE, ftpService |-> ftpService,
     loading |-> FALSE, error |-> msg]
connectCatchKeepsConnected(msg) ==
    [connected |-> connected, config |-> FALSE, ftpService |-> FALSE,
     loading |-> FALSE, error |-> msg]
connectCatch(msg) ==
    [connected |-> FALSE, config |-> FALSE, ftpService |-> FALSE,
     loading |-> FALSE, error |-> msg]

ApplyCatch(c) ==
    /\ connected' = c.connected
    /\ config' = c.config
    /\ ftpService' = c.ftpService
    /\ loading' = c.loading
    /\ error' = c.error
    /\ thrown' = TRUE

\* the first commit: App's mount effect sets the mode (its second effect
\* still sees the mode of the first render), then useFtp's effect calls
\* connect(config), which runs up to await svc.connect()
Mount ==
    /\ ~mounted /\ bootPc = "idle"
    /\ mounted' = TRUE
    /\ mode' = "connecting"
    /\ Cursor(setModeCursor("connecting"))
    /\ loading' = TRUE
    /\ error' = "none"
    /\ ftpService' = TRUE
    /\ bootPc' = "access"
    /\ attempts' = attempts + 1
    /\ thrown' = FALSE
    /\ lastOp' = "other"
    /\ UNCHANGED <<files, currentPath, isConnected, connected, config, sessFrame>>

\* svc.connect() resolves, or rejects with a typed error; on a client that
\* disconnect() has closed meanwhile the access can only be rejected
AccessReturns(ok) ==
    /\ bootPc \in {"access", "accessClosed"}
    /\ ok => bootPc = "access"
    /\ IF ok
       THEN /\ isConnected' = TRUE
            /\ connected' = TRUE
            /\ config' = TRUE
            /\ loading' = FALSE
            /\ error' = "none"
            /\ currentPath' = Root
            /\ bootPc' = "rootList"
            /\ UNCHANGED <<ftpService, thrown>>
       ELSE /\ isConnected' = FALSE
            /\ ApplyCatch(connectCatch("connect"))
            /\ bootPc' = "failed"
            /\ UNCHANGED currentPath
    /\ lastOp' = "other"
    /\ UNCHANGED <<mode, cursorV, files, mounted, attempts, sessFrame>>

\* svc.list(root) of connect() resolves or rejects
RootListReturns(ok) ==
    /\ bootPc = "rootList"
    /\ IF ok
       THEN /\ files' = RemoteListing(Root)
            /\ currentPath' = Root
            /\ bootPc' = "done"
            /\ UNCHANGED <<connected, config, ftpService, loading, error, thrown>>
       ELSE /\ ApplyCatch(connectCatch("list"))
            /\ bootPc' = "failed"
            /\ UNCHANGED <<files, currentPath>>
    /\ lastOp' = "other"
    /\ UNCHANGED <<mode, cursorV, isConnected, mounted, attempts, sessFrame>>

\* App's second effect
ModeEffect ==
    /\ mounted
    /\ mode = "connecting"
    /\ connectionSettled(loading, connected, error)
    /\ mode' = "browse"
    /\ Cursor(setModeCursor("browse"))
    /\ lastOp' = "other"
    /\ UNCHANGED <<ftpV, isConnected, sessVars, sessFrame>>

\* disconnect() of the store: the cleanup of useFtp's effect when the
\* application unmounts, or any later call
Disconnect ==
    /\ attempts > 0
    /\ mounted' = FALSE
    /\ isConnected' = IF ftpService THEN FALSE ELSE isConnected
    /\ ftpService' = FALSE
    /\ connected' = FALSE
    /\ config' = FALSE
    /\ currentPath' = Root
    /\ files' = <<>>
    /\ loading' = FALSE
    /\ error' = "none"
    /\ bootPc' = IF bootPc = "access" /\ ftpService THEN "accessClosed" ELSE bootPc
    /\ lastOp' = "disconnect"
    /\ UNCHANGED <<mode, cursorV, thrown, attempts, sessFrame>>

\* the keys that the mounted application handles in this section
SessionKey ==
    /\ mounted
    /\ \/ KeyRefresh
       \/ KeyHelp
       \/ KeyDismiss
       \/ \E d \in {-1, 1} : KeyUpDown(d)

SessionNext ==
    \/ Mount
    \/ \E ok \in BOOLEAN : AccessReturns(ok)
    \/ \E ok \in BOOLEAN : RootListReturns(ok)
    \/ ModeEffect
    \/ Disconnect
    \/ SessionKey
    \/ ListSucceeds
    \/ ListFails

SpecSession == BootInit /\ [][SessionNext]_vars

\* effects are flushed after every commit: a mode effect that stays due runs
SpecSessionFair == SpecSession /\ WF_vars(ModeEffect)

-----------------------------------------------------------------------------
(* The resume offset of a file transfer: downloadWithSeparateClient from     *)
(* the size query to the end of the transfer, for one file.                  *)

\* sizes in bytes that the server and the local disk may report
Sizes == {0, 256, 512, 1024, 2048}

\* defaults.resumeThreshold: files smaller than this won't resume
resumeThreshold == 1024

nonResumeVars == <<navVars, hookRefVars, xferVars, dmVars, connVars, sessVars, dirJob, srch, np,
                   cs, en, reg, db>>

\* the application connected as in Init, and a file transfer that has
\* created its client and its local directory
ResumeInit ==
    /\ mode = "browse"
    /\ selectedIndex = 0
    /\ currentPage = 0
    /\ searchQuery = <<>>
    /\ searchResults = <<>>
    /\ isSearching = FALSE
    /\ checkedItems = {}
    /\ searchInputFocused = TRUE
    /\ files = RemoteListing(Root)
    /\ currentPath = Root
    /\ loading = FALSE
    /\ error = "none"
    /\ navPc = "idle"
    /\ navPath = Root
    /\ navRest = <<>>
    /\ navKind = "navigateTo"
    /\ timerPending = FALSE
    /\ timerQuery = <<>>
    /\ walkActive = FALSE
    /\ walkLeft = <<>>
    /\ lastOp = "other"
    /\ checkedSeen = NoneSeen
    /\ lastQueued = {}
    /\ lastPreview = NoPreview
    \* the search hook before any search: no service, no timers, an empty buffer
    /\ svcRef = 0
    /\ flushRef = 0
    /\ activeTimers = {}
    /\ batchRef = <<>>
    /\ walks = <<>>
    /\ lastStarted = <<>>
    \* no download yet; only the control connection (client 0) is open
    /\ downloads = <<>>
    /\ xfers = <<>>
    /\ connState = [c \in 0 .. MaxXfers |-> IF c = 0 THEN "open" ELSE "unused"]
    /\ clientTask = [c \in 0 .. MaxXfers |-> NoTask]
    /\ listBlocked = FALSE
    /\ listedDuring = FALSE
    /\ cancelledIds = {}
    /\ dmDownloads = <<>>
    /\ dmRunning = {}
    /\ dmPc = <<>>
    /\ isConnected = TRUE
    /\ linkUp = TRUE
    /\ client = 0
    /\ callers = [c \in 1 .. MaxCallers |-> [pc |-> "idle", on |-> 0, re |-> FALSE]]
    \* the session is connected: connect() has run to its end, without a throw
    /\ connected = TRUE
    /\ config = TRUE
    /\ ftpService = TRUE
    /\ mounted = TRUE
    /\ bootPc = "done"
    /\ thrown = FALSE
    /\ attempts = 1
    \* a run that starts: any size on the server (0: not reported), any size
    \* of the local file (0: no file)
    /\ rsRemote \in Sizes
    /\ rsLocal \in Sizes
    /\ rsPc = "size"
    /\ rsTotal = 0
    /\ rsExisting = 0
    /\ rsOffset = 0
    /\ rsDownloaded = 0
    /\ dirJob = IdleJob
    /\ srch = IdleSearch
    /\ np = NoPath
    /\ db = DbStart
    /\ reg = RegStart
    /\ en = NoEnter
    /\ cs = CsStart

\* the offset the code resumes from
startOffset(existingSize, totalSize) ==
    IF existingSize > 0 /\ totalSize > 0 /\ totalSize > existingSize THEN existingSize ELSE 0

\* dlClient.size(remotePath) answers, or throws and totalSize stays 0
RSize(ok) ==
    /\ rsPc = "size"
    /\ rsTotal' = IF ok THEN rsRemote ELSE 0
    /\ rsPc' = "stat"
    /\ UNCHANGED <<rsRemote, rsLocal, rsExisting, rsOffset, rsDownloaded, nonResumeVars>>

\* getFileSize(localPath) returns (0 for a missing file), startOffset and
\* downloaded are set; or it throws PermissionError and the run fails
RStat(ok) ==
    /\ rsPc = "stat"
    /\ IF ok
       THEN /\ rsExisting' = rsLocal
            /\ rsOffset' = startOffset(rsLocal, rsTotal)
            /\ rsDownloaded' = startOffset(rsLocal, rsTotal)
            /\ rsPc' = "transfer"
       ELSE /\ rsPc' = "failed"
            /\ UNCHANGED <<rsExisting, rsOffset, rsDownloaded>>
    /\ UNCHANGED <<rsRemote, rsLocal, rsTotal, nonResumeVars>>

\* trackProgress: downloaded = startOffset + info.bytesOverall
RProgress(bytesOverall) ==
    /\ rsPc = "transfer"
    /\ rsOffset + bytesOverall <= rsRemote
    /\ rsDownloaded < rsOffset + bytesOverall
    /\ rsDownloaded' = rsOffset + bytesOverall
    /\ UNCHANGED <<rsRemote, rsLocal, rsPc, rsTotal, rsExisting, rsOffset, nonResumeVars>>

\* downloadTo resolves or rejects
RTransferEnds(ok) ==
    /\ rsPc = "transfer"
    /\ rsPc' = IF ok THEN "done" ELSE "failed"
    /\ UNCHANGED <<rsRemote, rsLocal, rsTotal, rsExisting, rsOffset, rsDownloaded, nonResumeVars>>

ResumeNext ==
    \/ \E ok \in BOOLEAN : RSize(ok)
    \/ \E ok \in BOOLEAN : RStat(ok)
    \/ \E b \in Sizes \ {0} : RProgress(b)
    \/ \E ok \in BOOLEAN : RTransferEnds(ok)

SpecResume == ResumeInit /\ [][ResumeNext]_vars

-----------------------------------------------------------------------------
(* A directory transfer: addDirectoryDownload and                            *)
(* downloadDirectoryWithSeparateClient.  The recursion over the entries is   *)
(* kept as the list of entries still to do (work), a sub-directory's entries *)
(* going in front of its siblings.  The one record of the transfer receives  *)
(* the progress records of every file.  written is the set of local files    *)
(* that a finished downloadTo has left on disk.                              *)

nonDirVars == <<navVars, hookRefVars, xfers, connState, clientTask, listBlocked, listedDuring,
                cancelledIds, dmVars, connVars, sessVars, resumeVars, srch, np, cs, en, reg, db>>

\* the id that addDirectoryDownload gives the record
DirId == 1

DEntry(type, path, size) == [type |-> type, path |-> path, size |-> size]

\* the directories that can be downloaded: /d holds the directory s, the
\* symlink k and the file x; /d/s holds the larger file y and the file z
\* (sizes in progress units)
DirTops == {<<"d">>, <<"d", "s">>}

DirListing(p) ==
    CASE p = <<"d">>      -> << DEntry("DIR", <<"d", "s">>, 0),
                                DEntry("LINK", <<"d", "k">>, 0),
                                DEntry("FILE", <<"d", "x">>, 1) >>
      [] p = <<"d", "s">> -> << DEntry("FILE", <<"d", "s", "y">>, 3),
                                DEntry("FILE", <<"d", "s", "z">>, 1) >>
      [] OTHER            -> << >>

\* the loop goes to its next entry: a directory is entered, a file is
\* downloaded, anything else is passed over; past the last entry the
\* outermost call returns
RECURSIVE advance(_, _)
advance(job, work) ==
    IF work = <<>>
    THEN [job EXCEPT !.pc = "done", !.work = <<>>, !.file = NoEntry, !.sent = 0]
    ELSE IF Head(work).type = "DIR"
    THEN [job EXCEPT !.pc = "mkdir", !.dir = Head(work).path, !.work = Tail(work),
                     !.file = NoEntry, !.sent = 0]
    ELSE IF Head(work).type = "FILE"
    THEN [job EXCEPT !.pc = "connect", !.file = Head(work), !.work = Tail(work), !.sent = 0]
    ELSE advance(job, Tail(work))

\* a step of the walk throws: nothing catches it below addDirectoryDownload
failsSwallowed(job) == advance(job, job.work)
fails(job) == [job EXCEPT !.pc = "failed"]

\* .then and .catch of addDirectoryDownload, run when the outermost call ends
Settle(job, list) ==
    CASE job.pc = "done"   -> updateDownload(list, DirId, [status |-> "completed"])
      [] job.pc = "failed" -> updateDownload(list, DirId, [status |-> "failed"])
      [] OTHER             -> list

\* the messages of the errors that basic-ftp rejects a remote call with
Messages == {"550 No such file", "File not found", "Timeout (control socket)"}

\* err.message.includes('not found') || err.message.includes('550')
mentionsNotFound(msg) == msg \in {"550 No such file", "File not found"}

\* the catch block of FTPService.list: a not-found failure becomes a
\* FileNotFoundError, any other error is thrown again as it is
listCatch(msg) ==
    IF mentionsNotFound(msg) THEN Thrown("FileNotFoundError", msg, "list")
    ELSE Thrown("Error", msg, "list")

\* downloadWithSeparateClient has try/finally and no catch: what downloadTo
\* rejects with leaves the function as it is
separateClientThrows(msg) == Thrown("Error", msg, "downloadTo")

DirThrows(err) ==
    /\ dirJob' = [fails(dirJob) EXCEPT !.failures = @ + 1, !.err = err]
    /\ downloads' = Settle(dirJob', downloads)

\* addDirectoryDownload(item, base, true) up to the first await
DirAdd(top) ==
    /\ dirJob.pc = "idle"
    /\ downloads' = addDownload(downloads, [id |-> DirId, status |-> "downloading",
                                            downloaded |-> 0])
    /\ dirJob' = [dirJob EXCEPT !.pc = "mkdir", !.dir = top]
    /\ UNCHANGED nonDirVars

\* ensureDirectoryExists(localPath) resolves or throws
DirMkdir(ok) ==
    /\ dirJob.pc = "mkdir"
    /\ IF ok
       THEN dirJob' = [dirJob EXCEPT !.pc = "list"] /\ UNCHANGED downloads
       ELSE DirThrows(Thrown("PermissionError", "EACCES", "mkdir"))
    /\ UNCHANGED nonDirVars

\* service.list(remotePath) resolves or rejects; the loop starts
DirList(ok, msg) ==
    /\ dirJob.pc = "list"
    /\ IF ok
       THEN /\ dirJob' = advance(dirJob, DirListing(dirJob.dir) \o dirJob.work)
            /\ downloads' = Settle(dirJob', downloads)
       ELSE DirThrows(listCatch(msg))
    /\ UNCHANGED nonDirVars

\* the sizes a local file of the tree can already have
LocalSizes == {0, 1}

\* the answers of SIZE: 0 when it is not supported, else the file's size
RemoteSizes == {0, 1, 3}

\* downloadWithSeparateClient of a file up to downloadTo: the client connects,
\* the local directory is made, the remote size is asked (0 when SIZE is not
\* supported) and the local size is read; downloaded starts at startOffset.
\* Or one of the awaited calls throws
DirFileStarts(ok, totalSize, existingSize) ==
    /\ dirJob.pc = "connect"
    /\ totalSize \in {0, dirJob.file.size}
    /\ IF ok
       THEN /\ dirJob' = [dirJob EXCEPT !.pc = "transfer",
                                        !.sent = startOffset(existingSize, totalSize)]
            /\ UNCHANGED downloads
       ELSE DirThrows(Thrown("Error", "Timeout (control socket)", "access"))
    /\ UNCHANGED nonDirVars

\* bytes arrive: downloaded = startOffset + bytesOverall; the trackProgress
\* handler emits a record unless the last one is less than 200 ms old
DirProgress(emit) ==
    /\ dirJob.pc = "transfer"
    /\ dirJob.sent < dirJob.file.size
    /\ dirJob' = [dirJob EXCEPT !.sent = @ + 1]
    /\ downloads' = IF emit
                    THEN updateDownload(downloads, DirId,
                                        withId(progressOf("downloading", dirJob.sent + 1), DirId))
                    ELSE downloads
    /\ UNCHANGED nonDirVars

\* downloadTo resolves: the file's final record, and the loop goes on; or it
\* rejects with a transport error
DirFileEnds(ok, msg) ==
    /\ dirJob.pc = "transfer"
    /\ IF ok
       THEN /\ dirJob.sent = dirJob.file.size
            /\ dirJob' = advance([dirJob EXCEPT !.written = @ \cup {dirJob.file.path}],
                                 dirJob.work)
            /\ downloads' = Settle(dirJob',
                                   updateDownload(downloads, DirId,
                                       withId(progressOf("completed", dirJob.sent), DirId)))
       ELSE DirThrows(separateClientThrows(msg))
    /\ UNCHANGED nonDirVars

\* cancelDownload(id) of the hook: removeDownload
DirCancel ==
    /\ IndexOf(downloads, DirId) > 0
    /\ downloads' = removeDownload(downloads, DirId)
    /\ UNCHANGED <<dirJob, nonDirVars>>

DirNext ==
    \/ \E top \in DirTops : DirAdd(top)
    \/ \E ok \in BOOLEAN : DirMkdir(ok)
    \/ \E ok \in BOOLEAN, msg \in Messages : DirList(ok, msg)
    \/ \E ok \in BOOLEAN, totalSize \in RemoteSizes, existingSize \in LocalSizes :
          DirFileStarts(ok, totalSize, existingSize)
    \/ \E emit \in BOOLEAN : DirProgress(emit)
    \/ \E ok \in BOOLEAN, msg \in Messages : DirFileEnds(ok, msg)
    \/ DirCancel

SpecDir == Init /\ [][DirNext]_vars

-----------------------------------------------------------------------------
(* SearchService.search called directly, with a depth limit and an onMatch   *)
(* callback.  The call is suspended only while a list() is in flight.        *)
(* listed is the sequence of paths given to ftp.list, failed the set of      *)
(* those whose listing was rejected, matched the sequence of items given to  *)
(* onMatch, results the array the call returns.                              *)

nonSvcVars == <<navVars, hookRefVars, xferVars, dmVars, connVars, sessVars, resumeVars, dirJob,
                np, cs, en, reg, db>>

PathB == <<"/", "b">>

\* the tree that is searched: / holds the directories b and c and the file
\* ab; /b the directory d and the file bc; /b/d the file db; /c the file cb
SearchListing(p) ==
    CASE p = Root                      -> << Dir(<<"b">>), Dir(<<"c">>), File(<<"a", "b">>) >>
      [] p = PathB                     -> << Dir(<<"d">>), File(<<"b", "c">>) >>
      [] p = <<"/", "b", "/", "d">>    -> << File(<<"d", "b">>) >>
      [] p = <<"/", "c">>              -> << File(<<"c", "b">>) >>
      [] OTHER                         -> << >>

SearchDirs == {Root, PathB, <<"/", "b", "/", "d">>, <<"/", "c">>}

\* the arguments of the calls: startPath, pattern, and maxDepth (<<>> when
\* the argument is left out)
StartPaths == {Root, PathB}
Patterns   == {<<"b">>, <<"d">>}
MaxDepths  == {<<>>, <<0>>, <<1>>, <<2>>, <<3>>}

\* maxDepth ?? defaults.maxSearchDepth
limitOf(maxDepth) == IF maxDepth = <<>> THEN MaxSearchDepth ELSE maxDepth[1]

\* recurse(cur, depth) returns at its first line because of the depth
beyondDepthInclusive(depth, limit) == depth > limit
beyondDepth(depth, limit) == depth >= limit

\* results.push(matched) and onMatch(matched): the item goes to the end
reportFirst(out, item) == <<item>> \o out
report(out, item) == Append(out, item)

\* catch { /* skip */ }: the frame whose list() was rejected returns, the
\* frames below it go on
caughtAbove(stack) == << >>
caught(stack) == stack

\* the synchronous part of the call, from the frames on its stack up to the
\* next list() or to the return of search()
RECURSIVE recurse(_, _, _, _, _)
recurse(stack, cancelled, pat, out, limit) ==
    IF stack = <<>>
    THEN [pc |-> "done", stack |-> <<>>, out |-> out, cur |-> NoStr, depth |-> 0]
    ELSE LET top   == stack[Len(stack)]
             below == SubSeq(stack, 1, Len(stack) - 1)
         IN IF loopEnds(top.rest, cancelled)
            THEN recurse(below, cancelled, pat, out, limit)
            ELSE LET f      == Head(top.rest)
                     full   == IF top.cur = Root THEN <<"/">> \o f.name
                               ELSE top.cur \o <<"/">> \o f.name
                     out2   == IF Includes(f.name, pat)
                               THEN report(out, WithPath(f, top.cur)) ELSE out
                     stack2 == Append(below, [top EXCEPT !.rest = Tail(top.rest)])
                 IN IF f.type = "DIR" /\ ~beyondDepth(top.depth + 1, limit)
                    THEN [pc |-> "listing", stack |-> stack2, out |-> out2,
                          cur |-> full, depth |-> top.depth + 1]
                    ELSE recurse(stack2, cancelled, pat, out2, limit)

\* search(startPath, pattern, maxDepth, , onMatch) up to its first list(), or
\* to its return when recurse(startPath, 0) returns at once
SvcSearch(startPath, pattern, maxDepth) ==
    /\ srch.pc \in {"idle", "done"}
    /\ LET limit == limitOf(maxDepth)
           base  == [IdleSearch EXCEPT !.pat = pattern, !.limit = limit, !.start = startPath]
       IN srch' = IF beyondDepth(0, limit)
                  THEN [base EXCEPT !.pc = "done"]
                  ELSE [base EXCEPT !.pc = "listing", !.cur = startPath,
                                    !.listed = <<startPath>>]
    /\ UNCHANGED nonSvcVars

\* the list() in flight resolves or rejects; the call runs on to its next
\* list() or returns
SvcListReturns(ok) ==
    /\ srch.pc = "listing"
    /\ ok => srch.cur \in SearchDirs
    /\ LET st == IF ok
                 THEN Append(srch.stack, [cur |-> srch.cur, depth |-> srch.depth,
                                          rest |-> SearchListing(srch.cur)])
                 ELSE caught(srch.stack)
           r  == recurse(st, srch.cancelled, srch.pat, <<>>, srch.limit)
       IN srch' = [srch EXCEPT !.pc = r.pc, !.cur = r.cur, !.depth = r.depth,
                               !.stack = r.stack,
                               !.listed = IF r.pc = "listing" THEN Append(@, r.cur) ELSE @,
                               !.failed = IF ok THEN @ ELSE @ \cup {srch.cur},
                               !.matched = @ \o r.out,
                               !.results = @ \o r.out]
    /\ UNCHANGED nonSvcVars

\* cancel() while the call is suspended
SvcCancel ==
    /\ srch.pc = "listing"
    /\ ~srch.cancelled
    /\ srch' = cancel(srch)
    /\ UNCHANGED nonSvcVars

SvcNext ==
    \/ \E startPath \in StartPaths, pattern \in Patterns, maxDepth \in MaxDepths :
          SvcSearch(startPath, pattern, maxDepth)
    \/ \E ok \in BOOLEAN : SvcListReturns(ok)
    \/ SvcCancel

SpecSvc == Init /\ [][SvcNext]_vars

-----------------------------------------------------------------------------
(* normalizePath applied to a path, and again to its result *)

nonPathVars == <<navVars, hookRefVars, xferVars, dmVars, connVars, sessVars, resumeVars,
                 dirJob, srch, cs, en, reg, db>>

\* the characters of the paths
PathChars == {"/", ".", "a", "b"}

\* the strings over PathChars of up to n characters
RECURSIVE StringsUpTo(_)
StringsUpTo(n) ==
    IF n = 0 THEN {<<>>}
    ELSE LET shorter == StringsUpTo(n - 1)
         IN shorter \cup {Append(q, c) : q \in shorter, c \in PathChars}

PathInputs == StringsUpTo(MaxPathLen)

\* the connected application, with a path about to be normalized
PathInit ==
    /\ mode = "browse"
    /\ selectedIndex = 0
    /\ currentPage = 0
    /\ searchQuery = <<>>
    /\ searchResults = <<>>
    /\ isSearching = FALSE
    /\ checkedItems = {}
    /\ searchInputFocused = TRUE
    /\ files = RemoteListing(Root)
    /\ currentPath = Root
    /\ loading = FALSE
    /\ error = "none"
    /\ navPc = "idle"
    /\ navPath = Root
    /\ navRest = <<>>
    /\ navKind = "navigateTo"
    /\ timerPending = FALSE
    /\ timerQuery = <<>>
    /\ walkActive = FALSE
    /\ walkLeft = <<>>
    /\ lastOp = "other"
    /\ checkedSeen = NoneSeen
    /\ lastQueued = {}
    /\ lastPreview = NoPreview
    \* the search hook before any search: no service, no timers, an empty buffer
    /\ svcRef = 0
    /\ flushRef = 0
    /\ activeTimers = {}
    /\ batchRef = <<>>
    /\ walks = <<>>
    /\ lastStarted = <<>>
    \* no download yet; only the control connection (client 0) is open
    /\ downloads = <<>>
    /\ xfers = <<>>
    /\ connState = [c \in 0 .. MaxXfers |-> IF c = 0 THEN "open" ELSE "unused"]
    /\ clientTask = [c \in 0 .. MaxXfers |-> NoTask]
    /\ listBlocked = FALSE
    /\ listedDuring = FALSE
    /\ cancelledIds = {}
    /\ dmDownloads = <<>>
    /\ dmRunning = {}
    /\ dmPc = <<>>
    /\ isConnected = TRUE
    /\ linkUp = TRUE
    /\ client = 0
    /\ callers = [c \in 1 .. MaxCallers |-> [pc |-> "idle", on |-> 0, re |-> FALSE]]
    \* the session is connected: connect() has run to its end, without a throw
    /\ connected = TRUE
    /\ config = TRUE
    /\ ftpService = TRUE
    /\ mounted = TRUE
    /\ bootPc = "done"
    /\ thrown = FALSE
    /\ attempts = 1
    \* no run is watched for its resume offset
    /\ rsRemote = 0
    /\ rsLocal = 0
    /\ rsPc = "idle"
    /\ rsTotal = 0
    /\ rsExisting = 0
    /\ rsOffset = 0
    /\ rsDownloaded = 0
    /\ dirJob = IdleJob
    /\ srch = IdleSearch
    /\ np \in {[NoPath EXCEPT !.pc = "in", !.path = q] : q \in PathInputs}
    /\ db = DbStart
    /\ reg = RegStart
    /\ en = NoEnter
    /\ cs = CsStart

\* normalizePath(path)
PathNormalize ==
    /\ np.pc = "in"
    /\ np' = [np EXCEPT !.pc = "once", !.out = normalizePath(np.path)]
    /\ UNCHANGED nonPathVars

\* normalizePath(normalizePath(path))
PathNormalizeAgain ==
    /\ np.pc = "once"
    /\ np' = [np EXCEPT !.pc = "twice", !.again = normalizePath(np.out)]
    /\ UNCHANGED nonPathVars

PathNext == PathNormalize \/ PathNormalizeAgain

SpecPath == PathInit /\ [][PathNext]_vars

-----------------------------------------------------------------------------
(* The cursor of the UI store under the keyboard handler, over displayed     *)
(* lists of any length: a list is kept as its length only.  itemsPerPage is  *)
(* computed once when the store is created; nothing calls setItemsPerPage.   *)

nonCursorVars == <<navVars, hookRefVars, xferVars, dmVars, connVars, sessVars, resumeVars,
                   dirJob, srch, np, en, reg, db>>

\* displayItems.length
csLength(c) == IF c.mode = "search" THEN c.nResults ELSE c.nFiles

csCursor(c) == <<c.page, c.idx>>

\* the store after an operation that leaves the cursor at cursor
csAfter(c, op, g, cursor) ==
    [c EXCEPT !.op = op, !.g = g, !.before = csCursor(c), !.page = cursor[1], !.idx = cursor[2]]

\* the connected application, with a listing of any length displayed on pages
\* of any size
CursorInit ==
    /\ mode = "browse"
    /\ selectedIndex = 0
    /\ currentPage = 0
    /\ searchQuery = <<>>
    /\ searchResults = <<>>
    /\ isSearching = FALSE
    /\ checkedItems = {}
    /\ searchInputFocused = TRUE
    /\ files = RemoteListing(Root)
    /\ currentPath = Root
    /\ loading = FALSE
    /\ error = "none"
    /\ navPc = "idle"
    /\ navPath = Root
    /\ navRest = <<>>
    /\ navKind = "navigateTo"
    /\ timerPending = FALSE
    /\ timerQuery = <<>>
    /\ walkActive = FALSE
    /\ walkLeft = <<>>
    /\ lastOp = "other"
    /\ checkedSeen = NoneSeen
    /\ lastQueued = {}
    /\ lastPreview = NoPreview
    \* the search hook before any search: no service, no timers, an empty buffer
    /\ svcRef = 0
    /\ flushRef = 0
    /\ activeTimers = {}
    /\ batchRef = <<>>
    /\ walks = <<>>
    /\ lastStarted = <<>>
    \* no download yet; only the control connection (client 0) is open
    /\ downloads = <<>>
    /\ xfers = <<>>
    /\ connState = [c \in 0 .. MaxXfers |-> IF c = 0 THEN "open" ELSE "unused"]
    /\ clientTask = [c \in 0 .. MaxXfers |-> NoTask]
    /\ listBlocked = FALSE
    /\ listedDuring = FALSE
    /\ cancelledIds = {}
    /\ dmDownloads = <<>>
    /\ dmRunning = {}
    /\ dmPc = <<>>
    /\ isConnected = TRUE
    /\ linkUp = TRUE
    /\ client = 0
    /\ callers = [c \in 1 .. MaxCallers |-> [pc |-> "idle", on |-> 0, re |-> FALSE]]
    \* the session is connected: connect() has run to its end, without a throw
    /\ connected = TRUE
    /\ config = TRUE
    /\ ftpService = TRUE
    /\ mounted = TRUE
    /\ bootPc = "done"
    /\ thrown = FALSE
    /\ attempts = 1
    \* no run is watched for its resume offset
    /\ rsRemote = 0
    /\ rsLocal = 0
    /\ rsPc = "idle"
    /\ rsTotal = 0
    /\ rsExisting = 0
    /\ rsOffset = 0
    /\ rsDownloaded = 0
    /\ dirJob = IdleJob
    /\ srch = IdleSearch
    /\ np = NoPath
    /\ db = DbStart
    /\ reg = RegStart
    /\ en = NoEnter
    /\ cs \in {[CsStart EXCEPT !.nFiles = n, !.ips = k] : n \in 0 .. MaxItems, k \in 1 .. MaxPerPage}

\* moveCursor(g): the arrow keys call it with globalIndex - 1 and + 1, the
\* digit keys with an index of the current page
CsMoveCursor(g) ==
    /\ cs' = csAfter(cs, "moveCursor", g, moveCursorOn(g, csLength(cs), cs.ips, csCursor(cs)))
    /\ UNCHANGED nonCursorVars

\* PageDown / PageUp: nextPage(displayItems.length), prevPage()
CsNextPage ==
    /\ cs' = csAfter(cs, "nextPage", 0, nextPageOn(csLength(cs), cs.ips, csCursor(cs)))
    /\ UNCHANGED nonCursorVars

CsPrevPage ==
    /\ cs' = csAfter(cs, "prevPage", 0, prevPageOn(csCursor(cs)))
    /\ UNCHANGED nonCursorVars

\* g / G: goToFirstPage(), goToLastPage(displayItems.length)
CsFirstPage ==
    /\ cs' = csAfter(cs, "goToFirstPage", 0, <<0, 0>>)
    /\ UNCHANGED nonCursorVars

CsLastPage ==
    /\ cs' = csAfter(cs, "goToLastPage", 0, goToLastPageOn(csLength(cs), cs.ips))
    /\ UNCHANGED nonCursorVars

\* / in browse mode: setMode('search'), setSearchQuery('')
CsKeySearch ==
    /\ cs.mode = "browse"
    /\ cs' = [csAfter(cs, "search", 0, <<0, 0>>) EXCEPT !.mode = "search", !.nResults = 0]
    /\ UNCHANGED nonCursorVars

\* Esc in search mode: setMode('browse') keeps the cursor, setSearchQuery('')
CsSearchEsc ==
    /\ cs.mode = "search"
    /\ cs' = [csAfter(cs, "searchEsc", 0, csCursor(cs)) EXCEPT !.mode = "browse", !.nResults = 0]
    /\ UNCHANGED nonCursorVars

\* runSearch starts a walk, or the query is emptied: setSearchResults([])
CsSetSearchResults ==
    /\ cs.mode = "search"
    /\ cs' = [csAfter(cs, "setSearchResults", 0, <<0, 0>>) EXCEPT !.nResults = 0]
    /\ UNCHANGED nonCursorVars

\* flushBatch: appendSearchResults(batch) with k matches
CsAppendResults(k) ==
    /\ cs.mode = "search"
    /\ cs.nResults + k <= MaxItems
    /\ cs' = [csAfter(cs, "appendSearchResults", 0, csCursor(cs)) EXCEPT !.nResults = @ + k]
    /\ UNCHANGED nonCursorVars

\* entering a directory or going back: resetSelection(), and the listing of
\* n entries arrives (browse keys are ignored while it is loading)
CsNavigated(n) ==
    /\ cs' = [csAfter(cs, "navigate", 0, <<0, 0>>) EXCEPT !.mode = "browse", !.nFiles = n,
                                                          !.nResults = 0]
    /\ UNCHANGED nonCursorVars

\* r: listDirectory(currentPath) resolves with the n entries the directory
\* holds now; the UI store is not touched
CsRefreshed(n) ==
    /\ cs.mode = "browse"
    /\ cs' = [csAfter(cs, "refresh", 0, csCursor(cs)) EXCEPT !.nFiles = n]
    /\ UNCHANGED nonCursorVars

CursorNext ==
    \/ \E g \in -1 .. MaxItems + 1 : CsMoveCursor(g)
    \/ CsNextPage
    \/ CsPrevPage
    \/ CsFirstPage
    \/ CsLastPage
    \/ CsKeySearch
    \/ CsSearchEsc
    \/ CsSetSearchResults
    \/ \E k \in 1 .. MaxItems : CsAppendResults(k)
    \/ \E n \in 0 .. MaxItems : CsNavigated(n)
    \/ \E n \in 0 .. MaxItems : CsRefreshed(n)

SpecCursor == CursorInit /\ [][CursorNext]_vars

-----------------------------------------------------------------------------
(* handleEnter on a link or a directory of any target: the candidates it     *)
(* hands to tryNavigateTo one after the other.  The server decides for each  *)
(* candidate whether it lists.  tried is the sequence of the paths given to  *)
(* navigate, each with its outcome.                                          *)

nonEnterVars == <<navVars, hookRefVars, xferVars, dmVars, connVars, sessVars, resumeVars,
                  dirJob, srch, np, cs, reg, db>>

\* the targets of the links: absolute ones of one to three segments, and
\* relative ones
LinkTargets ==
    { <<"/">> \o t : t \in { <<"a">>, <<"x">>, <<"x", "/", "a">>, <<"a", "/", "x">>,
                             <<"x", "/", "y", "/", "a">>, <<"x", "/", "a", "/", "y">> } }
    \cup { <<"a">>, <<"x", "/", "a">>, <<".", ".", "/", "a">> }

\* the entries handleEnter is called with: links found by browsing (no path,
\* the current directory is their base) or by a search (path set), and a
\* directory
EnterItems ==
    { [Link(<<"l">>, t) EXCEPT !.path = p] : t \in LinkTargets, p \in {NoStr, PathA, PathB} }
    \cup { Dir(<<"a">>) }

\* the connected application, about to enter an entry
EnterInit ==
    /\ mode = "browse"
    /\ selectedIndex = 0
    /\ currentPage = 0
    /\ searchQuery = <<>>
    /\ searchResults = <<>>
    /\ isSearching = FALSE
    /\ checkedItems = {}
    /\ searchInputFocused = TRUE
    /\ files = RemoteListing(Root)
    /\ currentPath = Root
    /\ loading = FALSE
    /\ error = "none"
    /\ navPc = "idle"
    /\ navPath = Root
    /\ navRest = <<>>
    /\ navKind = "navigateTo"
    /\ timerPending = FALSE
    /\ timerQuery = <<>>
    /\ walkActive = FALSE
    /\ walkLeft = <<>>
    /\ lastOp = "other"
    /\ checkedSeen = NoneSeen
    /\ lastQueued = {}
    /\ lastPreview = NoPreview
    \* the search hook before any search: no service, no timers, an empty buffer
    /\ svcRef = 0
    /\ flushRef = 0
    /\ activeTimers = {}
    /\ batchRef = <<>>
    /\ walks = <<>>
    /\ lastStarted = <<>>
    \* no download yet; only the control connection (client 0) is open
    /\ downloads = <<>>
    /\ xfers = <<>>
    /\ connState = [c \in 0 .. MaxXfers |-> IF c = 0 THEN "open" ELSE "unused"]
    /\ clientTask = [c \in 0 .. MaxXfers |-> NoTask]
    /\ listBlocked = FALSE
    /\ listedDuring = FALSE
    /\ cancelledIds = {}
    /\ dmDownloads = <<>>
    /\ dmRunning = {}
    /\ dmPc = <<>>
    /\ isConnected = TRUE
    /\ linkUp = TRUE
    /\ client = 0
    /\ callers = [c \in 1 .. MaxCallers |-> [pc |-> "idle", on |-> 0, re |-> FALSE]]
    \* the session is connected: connect() has run to its end, without a throw
    /\ connected = TRUE
    /\ config = TRUE
    /\ ftpService = TRUE
    /\ mounted = TRUE
    /\ bootPc = "done"
    /\ thrown = FALSE
    /\ attempts = 1
    \* no run is watched for its resume offset
    /\ rsRemote = 0
    /\ rsLocal = 0
    /\ rsPc = "idle"
    /\ rsTotal = 0
    /\ rsExisting = 0
    /\ rsOffset = 0
    /\ rsDownloaded = 0
    /\ dirJob = IdleJob
    /\ srch = IdleSearch
    /\ np = NoPath
    /\ db = DbStart
    /\ reg = RegStart
    /\ en \in {[NoEnter EXCEPT !.pc = "ready", !.item = i] : i \in EnterItems}
    /\ cs = CsStart

\* handleEnter(item) up to the first await of navigate
EnBegin ==
    /\ en.pc = "ready"
    /\ LET cands == [i \in DOMAIN enterCandidates(en.item) |->
                        navigateArg(enterCandidates(en.item)[i])]
       IN en' = [en EXCEPT !.pc = "listing", !.cur = Head(cands), !.rest = Tail(cands)]
    /\ UNCHANGED nonEnterVars

\* navigate(path) resolves or rejects: tryNavigateTo returns true and
\* handleEnter returns, or the next candidate is tried, or the error is set
EnListReturns(ok) ==
    /\ en.pc = "listing"
    /\ LET tried2 == Append(en.tried, [path |-> en.cur, ok |-> ok])
       IN en' = IF ok
                THEN [en EXCEPT !.pc = "done", !.tried = tried2, !.rest = <<>>]
                ELSE IF enterKind(en.item) = "tryNavigateTo" /\ en.rest # <<>>
                THEN [en EXCEPT !.cur = Head(en.rest), !.rest = Tail(en.rest), !.tried = tried2]
                ELSE [en EXCEPT !.pc = "failed", !.tried = tried2,
                                !.error = listError(enterKind(en.item))]
    /\ UNCHANGED nonEnterVars

EnterNext == EnBegin \/ \E ok \in BOOLEAN : EnListReturns(ok)

SpecEnter == EnterInit /\ [][EnterNext]_vars

-----------------------------------------------------------------------------
(* Claims about the selection *)

\* C1: after an operation that replaces the displayed list (a successful
\* listDirectory, or setSearchResults with a new result set) the checked set
\* is empty.
C1_CheckedEmptyAfterReplace ==
    lastOp \in {"listed", "results"} => checkedItems = {}

\* C2: every entry that the download key queues from the checked set is the
\* entry that was displayed at that global index when the user checked it.
C2_QueuedIsWhatWasChecked ==
    \A r \in lastQueued : r.item = r.seen

-----------------------------------------------------------------------------
(* Claims about the search walks *)

\* C6: once cancel() has been called on a walk, the walk issues no further
\* list() call and reports no further match: the set of directories it has
\* asked for and the matches it has passed to onMatch stay as they are.
C6_CancelledWalkStops ==
    [][\A w \in DOMAIN walks :
          walks[w].cancelled =>
              /\ walks'[w].listed = walks[w].listed
              /\ walks'[w].matched = walks[w].matched]_vars

\* a walk for "f" cancelled while it listed /a: it ended without reporting the
\* file af of that listing or the file f of the root, which its loops had not
\* reached
C6_Witness ==
    \E w \in DOMAIN walks :
        /\ walks[w].cancelled
        /\ walks[w].pc = "done"
        /\ walks[w].pat = <<"f">>
        /\ walks[w].listed = <<Root, PathA>>
        /\ walks[w].matched = <<>>

\* C7: after Esc has taken the interface from search to browse, every walk
\* that has not finished has its cancel flag set.
C7_EscCancelsEveryWalk ==
    lastOp = "searchEsc" =>
        \A w \in DOMAIN walks : walks[w].pc = "listing" => walks[w].cancelled

\* C8: searchResults only holds entries whose name contains the query of the
\* walk that runSearch started last.
C8_ResultsMatchLatestQuery ==
    \A i \in DOMAIN searchResults : Includes(searchResults[i].name, lastStarted)

-----------------------------------------------------------------------------
(* Claims about the transfers *)

C4_ConnectionClosedAtExit ==
    \A t \in DOMAIN xfers :
        xfers[t].pc \in {"done", "failed"} => connState[xfers[t].conn] # "open"

\* C10: after cancelDownload(id), no step of that transfer changes the
\* downloads list of the UI store.
C10_NoUpdateAfterCancel ==
    [][\A t \in DOMAIN xfers :
          (t \in cancelledIds /\ xfers'[t] # xfers[t]) => downloads' = downloads]_vars

\* a transfer that was cancelled while it ran and then delivered its
\* completion to updateDownload
C10_Witness ==
    \E t \in DOMAIN xfers :
        /\ t \in cancelledIds
        /\ xfers[t].late
        /\ xfers[t].pc = "done"

\* C9: a record of the DownloadManager whose status is cancelled keeps that
\* status: no progress event and no end of the transfer changes it.
C9_CancelledStaysCancelled ==
    [][\A id \in DOMAIN dmDownloads :
          dmDownloads[id].status = "cancelled" => dmDownloads'[id].status = "cancelled"]_vars

-----------------------------------------------------------------------------
(* Claims about the control connection *)

\* C5: at no time are two connection attempts (client.access calls) of the
\* session pending together.
C5_OneConnectionAttempt == Cardinality(Connecting) <= 1

\* C11: a transfer queued through addFileDownload whose run has finished and
\* whose record was not cancelled shows a terminal status (completed or
\* failed) in the downloads list of the UI.
C11_FinishedShowsTerminal ==
    \A id \in DOMAIN dmPc :
        (dmPc[id] = "done" /\ IndexOf(downloads, id) > 0) =>
            downloads[IndexOf(downloads, id)].status \in {"completed", "failed"}

-----------------------------------------------------------------------------
(* Claims about the session *)

C13_RefreshRetriesConnect ==
    [][(mounted /\ bootPc = "failed" /\ mode = "browse" /\ error # "none" /\ lastOp' = "refresh")
          => (loading' \/ attempts' > attempts \/ connected')]_vars


\* C19: right after a call of disconnect(), from whatever state, the session
\* is disconnected: connected is false, the path is the root, the file list
\* is empty, the module holds no service and the service's isConnected flag
\* is false (a second call then finds nothing to change).
C19_DisconnectedAfterDisconnect ==
    lastOp = "disconnect" =>
        /\ ~connected
        /\ currentPath = Root
        /\ files = <<>>
        /\ ~loading
        /\ ~ftpService
        /\ ~isConnected

\* C20: the step in which connect() fails, at svc.connect() or at the root
\* listing, leaves connected false, the configuration and the service
\* reference cleared and loading false, rethrows the error and starts no new
\* connection attempt; nor does any later step while the failure stands.
C20_FailedConnectResets ==
    [][bootPc' = "failed" =>
          /\ attempts' = attempts
          /\ bootPc # "failed" =>
                (~connected' /\ ~config' /\ ~ftpService' /\ ~loading' /\ thrown')]_vars

\* connect() has failed at the listing of the root, after a successful access
C20_Witness ==
    /\ bootPc = "failed"
    /\ error = "list"
    /\ thrown
    /\ ~connected /\ ~config /\ ~ftpService /\ ~loading


-----------------------------------------------------------------------------
(* Claims about navigation *)

\* C14: while the listing started by entering a directory or a link is in
\* flight, every step that is not its success leaves currentPath and the
\* file list as they were, and the step that ends the operation in failure
\* (the listing has failed for every target tried) sets an error message.
C14_FailedEnterKeepsListing ==
    [][(navPc = "listing" /\ navKind \in {"navigateTo", "tryNavigateTo"} /\ lastOp' # "listed")
          => /\ files' = files
             /\ currentPath' = currentPath
             /\ navPc' = "idle" => (error' # "none" /\ ~loading')]_vars

\* every target of the link in the root has been tried and has failed: the
\* listing shown is still that of the root
C14_Witness ==
    /\ navPc = "idle"
    /\ error = "linkTarget"
    /\ ~loading
    /\ currentPath = Root
    /\ files = RemoteListing(Root)


\* C15: in every state currentPath is normalized: it is what normalizePath
\* makes of it (one leading slash, no trailing slash but the root's, no '.',
\* '..' or empty segment).
C15_CurrentPathNormalized == currentPath = normalizePath(currentPath)


-----------------------------------------------------------------------------
(* Claims about the download key and the search results *)

\* C16: the download key pressed with a non-empty checked set queues one
\* transfer for every checked index and leaves the checked set empty; pressed
\* with an empty checked set it queues exactly the entry under the cursor.
C16_DownloadQueuesChecked ==
    [][lastOp' = "download" =>
          IF checkedItems # {}
          THEN /\ checkedItems' = {}
               /\ {q.idx : q \in lastQueued'} = checkedItems
          ELSE {q.idx : q \in lastQueued'} = {globalIndex}]_vars


\* the remote path of an entry resolved against the directory it is tagged
\* with, or against the browse path when it carries no tag
OriginJoined(item) ==
    LET base == IF item.path # NoStr THEN item.path ELSE currentPath
    IN IF base = Root THEN <<"/">> \o item.name ELSE base \o <<"/">> \o item.name

\* C17: every search result carries the directory it was found in, and an
\* entry queued by the download key or shown by the preview key is addressed
\* by that directory joined with its name, not by the browse path.
C17_ActionsResolveAgainstOrigin ==
    /\ \A i \in DOMAIN searchResults : searchResults[i].path # NoStr
    /\ \A q \in lastQueued : q.item.path # NoStr => q.base = q.item.path
    /\ lastPreview # NoPreview => lastPreview.remote = OriginJoined(lastPreview.item)


-----------------------------------------------------------------------------
(* Claims about the resume offset *)

\* C18: a transfer that has reached downloadTo resumes from offset k exactly
\* when the local file has size k > 0, the remote size N is known with k < N,
\* and the file is not below the resume threshold; otherwise it starts at 0.
C18_ResumeOffset ==
    rsPc \in {"transfer", "done"} =>
        rsOffset = IF /\ rsExisting > 0
                      /\ rsTotal > 0
                      /\ rsTotal > rsExisting
                      /\ rsTotal >= resumeThreshold
                   THEN rsExisting ELSE 0


\* C21: a call whose liveness probe has failed and whose reconnect has
\* succeeded awaits its command on the connection it has opened, which is
\* still the session's connection: nothing has closed it under the command,
\* so the caller sees no error of a lost connection.
C21_CommandOnNewConnection ==
    \A c \in DOMAIN callers :
        (callers[c].pc = "listing" /\ callers[c].re) => callers[c].on = client


\* C22: no step of a file transfer (its download connection opening, failing
\* or closing included) changes the browsing session: the control
\* connection and the command it runs, the service's connected flag,
\* currentPath, the file list and the session error stay as they are.
C22_TransferStepsKeepSession ==
    [][xfers' # xfers =>
          /\ connState'[0] = connState[0]
          /\ clientTask'[0] = clientTask[0]
          /\ isConnected' = isConnected
          /\ currentPath' = currentPath
          /\ files' = files
          /\ error' = error]_vars

\* one transfer has failed in downloadTo and its connection is closed,
\* another has completed, and the control connection is open
C22_Witness ==
    /\ connState[0] = "open"
    /\ isConnected
    /\ \E t \in DOMAIN xfers : xfers[t].pc = "failed" /\ connState[xfers[t].conn] = "closed"
    /\ \E t \in DOMAIN xfers : xfers[t].pc = "done" /\ connState[xfers[t].conn] = "closed"

-----------------------------------------------------------------------------
(* Claims about directory transfers *)

\* C23: the bytes-transferred values that progress updates apply to the
\* record of a directory transfer never decrease, from one file of the
\* directory to the next included.
C23_DirProgressMonotone ==
    [][(IndexOf(downloads, DirId) > 0 /\ IndexOf(downloads', DirId) > 0)
          => downloads'[IndexOf(downloads', DirId)].downloaded
                >= downloads[IndexOf(downloads, DirId)].downloaded]_vars

\* C24: once a step of a directory transfer has thrown, the transfer is
\* over as failed: no later entry is started, the record, while it is still
\* listed, has status failed, and the files written before stay written.
C24_DirFailureEndsTransfer ==
    /\ [](dirJob.failures > 0 =>
             /\ dirJob.pc = "failed"
             /\ dirJob.failures = 1
             /\ IndexOf(downloads, DirId) > 0
                   => downloads[IndexOf(downloads, DirId)].status = "failed")
    /\ [][dirJob.failures > 0 => dirJob' = dirJob]_vars
    /\ [][dirJob.written \subseteq dirJob'.written]_vars

\* a file of the directory failed after another one had been written, and
\* the record shows failed
C24_Witness ==
    /\ dirJob.failures > 0
    /\ dirJob.file.type = "FILE"
    /\ dirJob.written # {}
    /\ dirJob.work # <<>>
    /\ IndexOf(downloads, DirId) > 0
    /\ downloads[IndexOf(downloads, DirId)].status = "failed"

-----------------------------------------------------------------------------
(* Claims about SearchService.search *)

\* the paths given to ftp.list by the call
ListedSet == {srch.listed[i] : i \in DOMAIN srch.listed}

\* how many directories a path lies below the start path
DepthBelow(start, p) == Len(Segments(p)) - Len(Segments(start))

\* the path of the entry called name in the directory p
ChildPath(p, name) == IF p = Root THEN <<"/">> \o name ELSE p \o <<"/">> \o name

\* C25: search lists a directory only if it lies fewer than maxDepth levels
\* below startPath; with a limit of 0 it lists nothing and returns nothing.
C25_ListsOnlyBelowDepth ==
    /\ \A p \in ListedSet : DepthBelow(srch.start, p) < srch.limit
    /\ (srch.pc = "done" /\ srch.limit = 0) => (srch.listed = <<>> /\ srch.results = <<>>)

\* a walk from / with limit 2 has returned: it listed /, /b and /c but not
\* /b/d, and nothing failed or cancelled it
C25_Witness ==
    /\ srch.pc = "done"
    /\ srch.start = Root
    /\ srch.limit = 2
    /\ ~srch.cancelled
    /\ srch.failed = {}
    /\ srch.listed = <<Root, PathB, <<"/", "c">> >>

\* C26: a rejected listing never ends the walk: when search has returned
\* without being cancelled, every directory within the limit whose parent
\* was listed is listed too, and every matching entry of every directory
\* that was listed is in the result.
C26_ListFailureSkipsSubtree ==
    (srch.pc = "done" /\ ~srch.cancelled) =>
        /\ srch.limit > 0 => srch.start \in ListedSet
        /\ \A p \in ListedSet \ srch.failed :
              \A k \in DOMAIN SearchListing(p) :
                 LET f == SearchListing(p)[k]
                 IN /\ (f.type = "DIR" /\ DepthBelow(srch.start, p) + 1 < srch.limit)
                          => ChildPath(p, f.name) \in ListedSet
                    /\ Includes(f.name, srch.pat)
                          => \E i \in DOMAIN srch.results : srch.results[i] = WithPath(f, p)

\* the listing of /b was rejected, /c was listed after it, and its match cb
\* is in the result
C26_Witness ==
    /\ srch.pc = "done"
    /\ ~srch.cancelled
    /\ srch.start = Root
    /\ srch.failed = {PathB}
    /\ <<"/", "c">> \in ListedSet
    /\ \E i \in DOMAIN srch.results : srch.results[i] = WithPath(File(<<"c", "b">>), <<"/", "c">>)

\* the place of an entry in the listing of its directory
NameIndex(listing, name) == CHOOSE k \in DOMAIN listing : listing[k].name = name

\* the length of the longest common prefix of two sequences
RECURSIVE CommonLen(_, _)
CommonLen(a, b) ==
    IF a = <<>> \/ b = <<>> \/ Head(a) # Head(b) THEN 0
    ELSE 1 + CommonLen(Tail(a), Tail(b))

\* item a comes before item b in a depth-first walk: a is an ancestor of b,
\* or below their last common directory a's branch is listed first
Precedes(a, b) ==
    LET sa == Segments(ChildPath(a.path, a.name))
        sb == Segments(ChildPath(b.path, b.name))
        n  == CommonLen(sa, sb)
        up == SearchListing(<<"/">> \o Join(SubSeq(sa, 1, n)))
    IN IF n = Len(sa) THEN n < Len(sb)
       ELSE IF n = Len(sb) THEN FALSE
       ELSE NameIndex(up, sa[n + 1]) < NameIndex(up, sb[n + 1])

\* C27: onMatch receives the matches in depth-first order, and the array
\* search returns is the sequence given to onMatch.
C27_MatchesDepthFirst ==
    /\ srch.results = srch.matched
    /\ \A i, j \in DOMAIN srch.matched : i < j => Precedes(srch.matched[i], srch.matched[j])

\* the walk of the whole tree for b has returned its five matches
C27_Witness ==
    /\ srch.pc = "done"
    /\ ~srch.cancelled
    /\ srch.failed = {}
    /\ srch.start = Root
    /\ Len(srch.matched) = 5
    /\ srch.matched[1] = WithPath(Dir(<<"b">>), Root)
    /\ srch.matched[2] = WithPath(File(<<"d", "b">>), <<"/", "b", "/", "d">>)

-----------------------------------------------------------------------------
(* Claims about the errors of remote calls *)

\* C28: a remote not-found failure reaches the caller as FileNotFoundError
\* from a listing and from a file download alike, and any other failure of
\* a file download as DownloadError.
C28_RemoteErrorsClassified ==
    /\ (dirJob.err.from = "list" /\ mentionsNotFound(dirJob.err.msg))
          => dirJob.err.kind = "FileNotFoundError"
    /\ dirJob.err.from = "downloadTo"
          => dirJob.err.kind = IF mentionsNotFound(dirJob.err.msg)
                               THEN "FileNotFoundError" ELSE "DownloadError"

-----------------------------------------------------------------------------
(* Claims about paths *)

\* C29: normalizePath is idempotent, and its result starts with '/', has
\* no '.' or '..' segment and no trailing '/' unless it is '/' itself.
C29_NormalizeIdempotentCanonical ==
    /\ np.pc \in {"once", "twice"} =>
          /\ StartsWithSlash(np.out)
          /\ \A k \in DOMAIN Split(np.out) : Split(np.out)[k] \notin {<<".">>, <<".", ".">>}
          /\ np.out # Root => np.out[Len(np.out)] # "/"
    /\ np.pc = "twice" => np.again = np.out

\* "../a" has been normalized to "/a", and that again
C29_Witness ==
    /\ np.pc = "twice"
    /\ np.path = <<".", ".", "/", "a">>
    /\ np.out = <<"/", "a">>

-----------------------------------------------------------------------------
(* Claims about the cursor *)

\* C30: when the displayed list has just been replaced, by a successful
\* listing (enter, go back, refresh) or by a new search result set, the
\* cursor is on the first row of the first page.
C30_CursorResetOnReplace ==
    lastOp \in {"listed", "results"} => (selectedIndex = 0 /\ currentPage = 0)

-----------------------------------------------------------------------------
(* Claims about the cursor store *)

\* C31: moveCursor(g) with g inside the displayed list leaves the cursor on
\* page g div itemsPerPage, row g mod itemsPerPage, which together give g
\* back; with g outside the list it leaves page and row as they were.
C31_MoveCursorDecomposes ==
    cs.op = "moveCursor" =>
        IF 0 <= cs.g /\ cs.g < csLength(cs)
        THEN /\ cs.page = cs.g \div cs.ips
             /\ cs.idx = cs.g % cs.ips
             /\ cs.page * cs.ips + cs.idx = cs.g
        ELSE csCursor(cs) = cs.before

\* moveCursor(2) on a list of three with pages of two has put the cursor on
\* the first row of the second page
C31_Witness ==
    /\ cs.op = "moveCursor"
    /\ cs.g = 2
    /\ cs.ips = 2
    /\ csLength(cs) = 3
    /\ cs.before = <<0, 1>>
    /\ csCursor(cs) = <<1, 0>>

\* C39: whenever the displayed list is not empty the cursor addresses one of
\* its items, and the row is within the page.
C39_CursorAddressesItem ==
    csLength(cs) > 0 =>
        /\ cs.page * cs.ips + cs.idx < csLength(cs)
        /\ cs.idx < cs.ips

-----------------------------------------------------------------------------
(* Claims about entering a link *)

\* the directory of the entry: where a search found it, else the current one
LinkBase(item) == IF item.path # NoStr THEN item.path ELSE currentPath

LinkIsAbsolute(item) == item.target[1] = "/"

\* the candidates of a link in the order the claim gives: the resolved
\* target, then an absolute target without its first 1, 2, ... segments
LinkOrder(item) ==
    LET parts == Segments(item.target)
    IN << IF LinkIsAbsolute(item) THEN item.target ELSE joinPath(LinkBase(item), item.target) >>
       \o (IF LinkIsAbsolute(item)
           THEN [k \in 1 .. Len(parts) - 1 |->
                    <<"/">> \o Join(SubSeq(parts, k + 1, Len(parts)))]
           ELSE <<>>)

\* C32: entering a link tries its candidates in the order resolved target,
\* then the absolute target stripped of 1, 2, ... leading segments; it stops
\* at the first one that lists, and sets the link-target error only after
\* every candidate has failed.
C32_LinkCandidatesInOrder ==
    en.item.type = "LINK" =>
        /\ Len(en.tried) <= Len(LinkOrder(en.item))
        /\ \A i \in DOMAIN en.tried :
              /\ en.tried[i].path = LinkOrder(en.item)[i]
              /\ i < Len(en.tried) => ~en.tried[i].ok
        /\ en.pc = "listing" =>
              /\ Len(en.tried) < Len(LinkOrder(en.item))
              /\ en.cur = LinkOrder(en.item)[Len(en.tried) + 1]
              /\ \A i \in DOMAIN en.tried : ~en.tried[i].ok
        /\ en.pc = "done" => en.tried[Len(en.tried)].ok
        /\ en.pc = "failed" => en.error = "linkTarget"
        /\ en.error = "linkTarget" =>
              /\ Len(en.tried) = Len(LinkOrder(en.item))
              /\ \A i \in DOMAIN en.tried : ~en.tried[i].ok

\* the link to /x/y/a was entered: /x/y/a and /y/a failed, /a listed
C32_Witness ==
    /\ en.pc = "done"
    /\ en.item.target = <<"/", "x", "/", "y", "/", "a">>
    /\ en.tried = << [path |-> <<"/", "x", "/", "y", "/", "a">>, ok |-> FALSE],
                     [path |-> <<"/", "y", "/", "a">>, ok |-> FALSE],
                     [path |-> <<"/", "a">>, ok |-> TRUE] >>

-----------------------------------------------------------------------------
(* The downloads list of the UI store under every sequence of addDownload,   *)
(* updateDownload and removeDownload, with the arguments their callers pass: *)
(* a new record, { ...p, id } or { status }, and an id.                      *)

nonRegVars == <<navVars, hookRefVars, xferVars, dmVars, connVars, sessVars, resumeVars, dirJob,
                srch, np, cs, en, db>>

RegIds == 1 .. MaxXfers

Statuses == {"downloading", "completed", "failed"}

\* the second argument of updateDownload(id, .) in useDownload
Updates(id) ==
    {[status |-> s] : s \in Statuses}
        \cup {withId(progressOf(s, n), id) : s \in Statuses, n \in 0 .. MaxProgress}

\* addDownload(progress) of addFileDownload / addDirectoryDownload
RegAdd(id) ==
    /\ id \in RegIds
    /\ reg' = [list |-> addDownload(reg.list, [id |-> id, status |-> "downloading",
                                               downloaded |-> 0]),
               op |-> "add", id |-> id]
    /\ UNCHANGED nonRegVars

\* updateDownload(id, u)
RegUpdate(id) ==
    /\ id \in RegIds
    /\ \E u \in Updates(id) :
          reg' = [list |-> updateDownload(reg.list, id, u), op |-> "update", id |-> id]
    /\ UNCHANGED nonRegVars

\* removeDownload(id)
RegRemove(id) ==
    /\ id \in RegIds
    /\ reg' = [list |-> removeDownload(reg.list, id), op |-> "remove", id |-> id]
    /\ UNCHANGED nonRegVars

RegNext ==
    \/ \E id \in RegIds : RegAdd(id)
    \/ \E id \in RegIds : RegUpdate(id)
    \/ \E id \in RegIds : RegRemove(id)

SpecRegistry == Init /\ [][RegNext]_vars

(* Claims about the downloads list *)

\* the records of a list that carry another id, in their order
Others(list, id) == SelectSeq(list, LAMBDA d : d.id # id)

NoTwoWithOneId(list) == \A i, j \in DOMAIN list : list[i].id = list[j].id => i = j

-----------------------------------------------------------------------------
(* The input debounce of useSearch: runSearchDebounced, the timer callback   *)
(* and cancelSearch.  timers holds the setTimeout timers that have neither   *)
(* fired nor been cleared, ref is timerRef.current (0 for null); started     *)
(* lists the timers whose callback started a walk, dead the timers that were *)
(* pending when a later query was typed or the search was cancelled.         *)

nonDbVars == <<navVars, hookRefVars, xferVars, dmVars, connVars, sessVars, resumeVars, dirJob,
               srch, np, cs, en, reg>>

MaxKeys == 4

DbQueries == {<<>>, <<" ">>, <<"a">>, <<"a", "b">>}

\* String.prototype.trim on the strings of DbQueries
trim(q) == SelectSeq(q, LAMBDA c : c # " ")

\* a clearTimeout that has no effect
clearTimeoutNot(timers, ref) == timers

\* if (timerRef.current) clearTimeout(timerRef.current)
clearTimeout(timers, ref) == {t \in timers : t.id # ref}

\* runSearchDebounced(query)
DbType(query) ==
    /\ query \in DbQueries
    /\ db.made < MaxKeys
    /\ LET left == clearTimeout(db.timers, db.ref)
           id   == db.made + 1
       IN db' = IF trim(query) = <<>>
                THEN [db EXCEPT !.timers = left, !.made = id,
                                !.dead = @ \cup {t.id : t \in db.timers}]
                ELSE [db EXCEPT !.timers = left \cup {[id |-> id, q |-> query]},
                                !.ref = id, !.made = id,
                                !.dead = @ \cup {t.id : t \in db.timers}]
    /\ UNCHANGED nonDbVars

\* the callback of timer id runs: timerRef.current = null; runSearch(query),
\* which starts a walk for a query that is not blank
DbFires(id) ==
    /\ \E t \in db.timers :
          /\ t.id = id
          /\ db' = [db EXCEPT !.timers = @ \ {t}, !.ref = 0,
                              !.started = IF trim(t.q) = <<>> THEN @ ELSE Append(@, id)]
    /\ UNCHANGED nonDbVars

\* cancelSearch()
DbCancel ==
    /\ db.made > 0
    /\ db' = [db EXCEPT !.timers = clearTimeout(@, db.ref), !.ref = 0,
                        !.dead = @ \cup {t.id : t \in db.timers}]
    /\ UNCHANGED nonDbVars

DebounceNext ==
    \/ \E query \in DbQueries : DbType(query)
    \/ \E id \in 1 .. MaxKeys : DbFires(id)
    \/ DbCancel

SpecDebounce == Init /\ [][DebounceNext]_vars

(* Claims about the debounce *)

\* C34: at most one debounce timer is pending, and a timer that was pending
\* when a later query was typed or the search was cancelled starts no walk.
C34_OnlyLastQueryStarts ==
    /\ Cardinality(db.timers) <= 1
    /\ \A i \in DOMAIN db.started : db.started[i] \notin db.dead

\* three queries were typed; the first was superseded by the second, the
\* second fired and started a walk, the third is pending
C34_Witness ==
    /\ db.made = 3
    /\ db.dead = {1}
    /\ db.started = <<2>>
    /\ Cardinality(db.timers) = 1


\* C35: at most one command (the pwd probe or the list of a list() call) is
\* outstanding on a control connection: no two callers of list() await a
\* command on the same client at the same time.
C35_OneCommandOnControl ==
    \A c, d \in DOMAIN callers :
        (/\ c # d
         /\ callers[c].pc \in {"probe", "listing"}
         /\ callers[d].pc \in {"probe", "listing"}) => callers[c].on # callers[d].on


C36_WitnessDisconnectDuringConnect ==
    /\ bootPc = "failed"
    /\ thrown
    /\ ~isConnected
    /\ ~connected /\ ~ftpService
    /\ lastOp = "other"
    /\ ~mounted

-----------------------------------------------------------------------------
(* FTPService.disconnect() among the callers of list(): the walk of a search *)
(* or the listing of a directory download holds the service object and goes  *)
(* on calling list() on it after the store has disconnected.                 *)

\* disconnect(): client.close(), isConnected = false.  The close rejects
\* what is pending on the client; an access pending on it cannot succeed.
CDisconnect ==
    /\ isConnected' = FALSE
    /\ linkUp' = FALSE
    /\ callers' = [c \in DOMAIN callers |->
                      IF callers[c].pc = "access" /\ callers[c].on = client
                      THEN [callers[c] EXCEPT !.pc = "accessClosed"]
                      ELSE callers[c]]
    /\ UNCHANGED <<client, nonConnVars>>

\* the access on a client that disconnect() has closed rejects: list() throws
CClosedAccessFails(c) ==
    /\ callers[c].pc = "accessClosed"
    /\ callers' = [callers EXCEPT ![c] = [pc |-> "idle", on |-> 0, re |-> FALSE]]
    /\ UNCHANGED <<isConnected, linkUp, client, nonConnVars>>

TeardownNext ==
    \/ \E c \in 1 .. MaxCallers : CList(c)
    \/ \E c \in 1 .. MaxCallers, ok \in BOOLEAN : CProbeReturns(c, ok)
    \/ \E c \in 1 .. MaxCallers, ok \in BOOLEAN : CAccessReturns(c, ok)
    \/ \E c \in 1 .. MaxCallers, ok \in BOOLEAN : CListReturns(c, ok)
    \/ CLinkDrops
    \/ CDisconnect
    \/ \E c \in 1 .. MaxCallers : CClosedAccessFails(c)

SpecTeardown == Init /\ [][TeardownNext]_vars

\* C37: once disconnect() has run, no control connection is opened by a
\* list() that is in flight or comes later.  The service starts connected
\* and only disconnect() clears isConnected, so the steps taken while it is
\* clear must not create and open a new client.
C37_NoReconnectAfterDisconnect ==
    [][~isConnected => client' = client]_vars


\* C38: the record of a directory transfer shows completed only when the
\* whole tree has been transferred, and a record that shows completed or
\* failed keeps that status for as long as it is listed.
C38_DirCompletedIsFinal ==
    /\ []((/\ IndexOf(downloads, DirId) > 0
           /\ downloads[IndexOf(downloads, DirId)].status = "completed")
             => dirJob.pc = "done")
    /\ [][(/\ IndexOf(downloads, DirId) > 0
           /\ IndexOf(downloads', DirId) > 0
           /\ downloads[IndexOf(downloads, DirId)].status \in {"completed", "failed"})
             => downloads'[IndexOf(downloads', DirId)].status
                   = downloads[IndexOf(downloads, DirId)].status]_vars


\* C40: the flush timer that a runSearch has started is active exactly while
\* its walk runs: it is cleared by the time the walk has finished or been
\* cancelled, and not before, whatever other walk starts or ends meanwhile.
C40_FlushTimerLivesWithWalk ==
    \A w \in DOMAIN walks :
        w \in activeTimers <=> (walks[w].pc # "done" /\ ~walks[w].cancelled)

=============================================================================
